---- MODULE Spec2Model ----
(***************************************************************************)
(* Time Manager: the scheduling and balance engine (state.ts, types.ts).   *)
(*                                                                         *)
(* Dates are day numbers counted from 1 January of Epoch.year (day 0).     *)
(* Identities (crypto.randomUUID) are drawn from a counter, nextId, so a   *)
(* generated identity was never handed out before.  Hour quantities are    *)
(* kept in minutes (one slot = SLOT_MINUTES minutes), so that              *)
(* SLOT_MINUTES / 60 hours per block stays an integer.  A project's name   *)
(* and a week's startDate are read by no engine operation and are left out *)
(* of the records.                                                         *)
(***************************************************************************)
EXTENDS Integers, Sequences, FiniteSets, TLC

VARIABLES appData, currentMonday, saveTimeout, nextId, created, last, events,
          listeners,      \* the subscribed callbacks, in subscription order
          timers,         \* the runtime's pending timers: milliseconds left of each
          sinceMutation,  \* history: milliseconds since the last debounced mutation
          unsaved,        \* history: keys of the weeks whose latest blocks no saveWeek carried
          writes,         \* history: timer-driven saveWeek dispatches since the last mutation
          savedFrom,      \* history: per template, the triples of the week it was saved from
          inflight        \* the persistence writes dispatched and not yet settled

vars == <<appData, currentMonday, saveTimeout, nextId, created, last, events,
          listeners, timers, sinceMutation, unsaved, writes, savedFrom, inflight>>

(***************************************************************************)
(* Program constants                                                       *)
(***************************************************************************)
SLOT_MINUTES == 30
START_HOUR == 7
END_HOUR == 19
SLOTS_PER_DAY == (END_HOUR - START_HOUR) * (60 \div SLOT_MINUTES)
DAYS == <<"Monday", "Tuesday", "Wednesday", "Thursday", "Friday">>
SAVE_DEBOUNCE_MS == 500
PaletteSize == 12
DefaultWeeklyHourGoal == 40

(***************************************************************************)
(* Bounds of the model                                                     *)
(***************************************************************************)
MaxWeeks == 2          \* navigation stays within MaxWeeks Mondays from FirstMonday
MaxCreates == 1        \* calls that generate identities, per run after initState
MaxTemplateCreates == 2  \* the same, in the runs of the template round trip
MaxInflight == 2       \* a call is made with fewer unsettled writes than this
CalendarYears == 28    \* the years of the calendar runs, from Epoch.year on
MaxVisited == 106      \* the weeks a calendar run visits: two years

\* the arguments the calls are made with
DayInputs == {"Monday"}
SlotInputs == {0, 1, 2}
TargetInputs == {1}
PriorityInputs == {"High"}
UpdateInputs == {[weeklyHourTarget |-> 2, priority |-> "Medium"]}
Null == [null |-> TRUE]
\* an identity that no entity carries
UnknownId == 0
\* day 0 is 1 January 2025, a Wednesday (getDay = 3)
Epoch == [year |-> 2025, jan1Day |-> 3]

(***************************************************************************)
(* Sequence helpers (Array.prototype.filter / find / findIndex / map)      *)
(***************************************************************************)
Range(s) == {s[i] : i \in DOMAIN s}

FindIndex(s, test(_)) ==
  IF \E i \in DOMAIN s : test(s[i])
  THEN CHOOSE i \in DOMAIN s : test(s[i]) /\ \A j \in 1..(i - 1) : ~test(s[j])
  ELSE 0

Max(a, b) == IF a >= b THEN a ELSE b
\* mutant of Min: the first bound is taken for the lower
Min_First(a, b) == a
Min(a, b) == IF a <= b THEN a ELSE b

(***************************************************************************)
(* Calendar geometry (types.ts)                                            *)
(***************************************************************************)
IsLeap(y) == (y % 4 = 0 /\ y % 100 # 0) \/ y % 400 = 0
DaysInYear(y) == IF IsLeap(y) THEN 366 ELSE 365

RECURSIVE Jan1Of(_)
\* day number of 1 January of year y
Jan1Of(y) == IF y <= Epoch.year THEN 0 ELSE Jan1Of(y - 1) + DaysInYear(y - 1)

RECURSIVE YearFrom(_, _)
YearFrom(y, d) == IF d < Jan1Of(y + 1) THEN y ELSE YearFrom(y + 1, d)

\* Date.prototype.getFullYear
getFullYear(d) == YearFrom(Epoch.year, d)

\* Date.prototype.getDay: 0 = Sunday .. 6 = Saturday
getDay(d) == (d + Epoch.jan1Day) % 7

\* mutant of getMonday: Sunday is taken for the first day of its week
getMonday_SundayFirst(d) == d - getDay(d) + 1

\* getMonday: d.getDate() - day + (day === 0 ? -6 : 1)
getMonday(d) == d - getDay(d) + (IF getDay(d) = 0 THEN -6 ELSE 1)

\* Math.ceil((days + jan1.getDay() + 1) / 7)
WeekNum(days, jan1Day) == (days + jan1Day + 1 + 6) \div 7

\* Number.prototype.toString for a non-negative integer, as character codes
RECURSIVE Digits(_)
Digits(n) == IF n < 10 THEN <<48 + n>> ELSE Digits(n \div 10) \o <<48 + (n % 10)>>

\* mutant of PadStart2: the week number is not padded
PadStart2_None(s) == s

\* String.prototype.padStart(2, "0")
PadStart2(s) == IF Len(s) >= 2 THEN s ELSE <<48>> \o s

\* Math.floor((monday.getTime() - jan1.getTime()) / 86400000): both dates are
\* local midnights, and shift is the number of hours by which daylight saving
\* time makes the span between them differ from whole days
DaysBetween(monday, jan1, shift) == ((monday - jan1) * 24 + shift) \div 24

\* the shifts of local time against 1 January that a time zone may have
ClockShifts == {-1, 0, 1}

\* getWeekKey: `${year}-W${weekNum.toString().padStart(2, "0")}`
\* a string is the sequence of its character codes ("-" = 45, "W" = 87)
getWeekKeyAt(monday, shift) ==
  LET year == getFullYear(monday)
      jan1 == Jan1Of(year)
      days == DaysBetween(monday, jan1, shift)
      weekNum == WeekNum(days, getDay(jan1))
  IN  Digits(year) \o <<45, 87>> \o PadStart2(Digits(weekNum))

\* mutant of getWeekKey: the week is written before the year
getWeekKey_WeekFirst(monday) ==
  LET key == getWeekKeyAt(monday, 0)
  IN  SubSeq(key, 6, 8) \o <<45>> \o SubSeq(key, 1, 4)

\* the key of a Monday is the same under every shift (C29 checks it), so it
\* is computed at shift 0
getWeekKey(monday) == getWeekKeyAt(monday, 0)

\* a < b on strings (comparison by code units)
RECURSIVE StrLess(_, _)
StrLess(a, b) ==
  IF b = <<>> THEN FALSE
  ELSE IF a = <<>> THEN TRUE
  ELSE IF Head(a) # Head(b) THEN Head(a) < Head(b)
  ELSE StrLess(Tail(a), Tail(b))

\* a.localeCompare(b): -1, 0, 1.  Week keys differ only in digit positions,
\* where collation order and code-unit order agree.
localeCompare(a, b) == IF a = b THEN 0 ELSE IF StrLess(a, b) THEN -1 ELSE 1

\* the window of weeks of a run starts with the week of 22 December 2025
FirstMonday == getMonday(Jan1Of(Epoch.year + 1) - 10)
Mondays == {FirstMonday + 7 * k : k \in 0..(MaxWeeks - 1)}
\* the dates "new Date()" may return: a Monday, Thursday or Sunday of the window
Todays == {m + k : m \in Mondays, k \in {0, 3, 6}}

(***************************************************************************)
(* Application state (state.ts)                                            *)
(*   appData       [projects, weeks, templates, weeklyHourGoal]            *)
(*   currentMonday the Monday of the selected week                         *)
(*   saveTimeout   "null", or the handle of a timer that is still "armed"  *)
(*                 or has "expired" (its callback ran; the handle stays)   *)
(*   nextId        the next identity generateId returns                    *)
(*   created       the calls since initState that generated identities     *)
(*   last          the call in progress: its name, arguments and result    *)
(*                 and the state it was made in (pre), until control is    *)
(*                 back in the event loop ("idle")                         *)
(*   events        what that call handed to the outside, in order: each    *)
(*                 persistence write it dispatched, each timer it cleared  *)
(*                 or set and each notification, with the appData of that  *)
(*                 moment                                                  *)
(***************************************************************************)
St == [appData |-> appData, currentMonday |-> currentMonday,
       saveTimeout |-> saveTimeout, nextId |-> nextId,
       listeners |-> listeners, timers |-> timers, sinceMutation |-> sinceMutation,
       unsaved |-> unsaved, writes |-> writes, savedFrom |-> savedFrom,
       inflight |-> inflight]

Ev(kind, arg, ad) == [kind |-> kind, arg |-> arg, appData |-> ad]

\* the outcome of a handler: the state it leaves, what it dispatched, its result
Out(ad, monday, timeout, nid, evs, result) ==
  [appData |-> ad, currentMonday |-> monday, saveTimeout |-> timeout,
   nextId |-> nid, events |-> evs, result |-> result]

\* notify(): listeners.forEach((l) => l())
notify(ad) == <<Ev("notify", Null, ad)>>

\* mutant of ClearPending: the pending timer is never cancelled
ClearPending_Never(timeout, ad) == <<>>

\* line 44: if (saveTimeout) clearTimeout(saveTimeout)
ClearPending(timeout, ad) ==
  IF timeout # "null" THEN <<Ev("clearTimeout", Null, ad)>> ELSE <<>>

\* debouncedSaveWeek(): clear the pending handle, arm a new timer
debouncedSaveWeek(timeout, ad) ==
  [saveTimeout |-> "armed",
   events |-> ClearPending(timeout, ad) \o <<Ev("setTimeout", SAVE_DEBOUNCE_MS, ad)>>]

WeekIndex(weeks, key) == FindIndex(weeks, LAMBDA w : w.weekKey = key)

\* mutant of ensureCurrentWeek: the new entry replaces the collection
ensureCurrentWeek_Only(ad, monday) ==
  LET key == getWeekKey(monday)
  IN  IF WeekIndex(ad.weeks, key) = 0
      THEN [ad EXCEPT !.weeks = <<[weekKey |-> key, blocks |-> <<>>]>>]
      ELSE ad

\* ensureCurrentWeek()
ensureCurrentWeek(ad, monday) ==
  LET key == getWeekKey(monday)
  IN  IF WeekIndex(ad.weeks, key) = 0
      THEN [ad EXCEPT !.weeks = Append(@, [weekKey |-> key, blocks |-> <<>>])]
      ELSE ad

\* mutant of getCurrentWeekData: the first stored week, whatever the selection
getCurrentWeekData_First(ad, monday) ==
  IF ad.weeks # <<>> THEN ad.weeks[1]
  ELSE [weekKey |-> getWeekKey(monday), blocks |-> <<>>]

\* getCurrentWeekData(): the stored week, or a detached empty one
getCurrentWeekData(ad, monday) ==
  LET key == getWeekKey(monday)
      idx == WeekIndex(ad.weeks, key)
  IN  IF idx # 0 THEN ad.weeks[idx] ELSE [weekKey |-> key, blocks |-> <<>>]

\* mutant of updateWeekInState: the week is pushed without looking for its key
updateWeekInState_Push(ad, week) == [ad EXCEPT !.weeks = Append(@, week)]

\* updateWeekInState(week)
updateWeekInState(ad, week) ==
  LET idx == WeekIndex(ad.weeks, week.weekKey)
  IN  IF idx # 0 THEN [ad EXCEPT !.weeks[idx] = week]
      ELSE [ad EXCEPT !.weeks = Append(@, week)]

\* mutant of CommitWeek: no write is scheduled
CommitWeek_NoSave(s, week, nid, result) ==
  LET ad == updateWeekInState(s.appData, week)
  IN  Out(ad, s.currentMonday, s.saveTimeout, nid, notify(ad), result)

\* the tail shared by the block operations:
\* updateWeekInState(week); debouncedSaveWeek(); notify()
CommitWeek(s, week, nid, result) ==
  LET ad == updateWeekInState(s.appData, week)
      d  == debouncedSaveWeek(s.saveTimeout, ad)
  IN  Out(ad, s.currentMonday, d.saveTimeout, nid, d.events \o notify(ad), result)

NoChange(s, result) ==
  Out(s.appData, s.currentMonday, s.saveTimeout, s.nextId, <<>>, result)

(***************************************************************************)
(* Week navigation                                                         *)
(***************************************************************************)
\* mutant of navigateWeek: the selection moves, no entry is made for the week
navigateWeek_NoEntry(s, direction) ==
  Out(s.appData, s.currentMonday + direction * 7, s.saveTimeout, s.nextId,
      notify(s.appData), Null)

navigateWeek(s, direction) ==
  LET newMonday == s.currentMonday + direction * 7
      ad == ensureCurrentWeek(s.appData, newMonday)
  IN  Out(ad, newMonday, s.saveTimeout, s.nextId, notify(ad), Null)

goToToday(s, today) ==
  LET monday == getMonday(today)
      ad == ensureCurrentWeek(s.appData, monday)
  IN  Out(ad, monday, s.saveTimeout, s.nextId, notify(ad), Null)

setWeeklyHourGoal(s, hours) ==
  LET ad == [s.appData EXCEPT !.weeklyHourGoal = hours]
  IN  Out(ad, s.currentMonday, s.saveTimeout, s.nextId,
          <<Ev("saveAppData", ad, ad)>> \o notify(ad), Null)

(***************************************************************************)
(* Project CRUD                                                            *)
(***************************************************************************)
ProjectIds(ad) == {p.id : p \in Range(ad.projects)}

\* mutants of NextColor: the index after the highest one in use; no search
NextColor_AfterHighest(usedIndices, colorIndex) ==
  IF usedIndices = {} THEN colorIndex
  ELSE 1 + CHOOSE c \in usedIndices : \A d \in usedIndices : d <= c

NextColor_NoSearch(usedIndices, colorIndex) == colorIndex

\* the while loop of addProject: the first index from 0 that is unused,
\* stopping at the palette's length
RECURSIVE NextColor(_, _)
NextColor(usedIndices, colorIndex) ==
  IF colorIndex \in usedIndices /\ colorIndex < PaletteSize
  THEN NextColor(usedIndices, colorIndex + 1)
  ELSE colorIndex

addProject(s, weeklyHourTarget, priority) ==
  LET ad == s.appData
      usedIndices == {p.colorIndex : p \in Range(ad.projects)}
      c0 == NextColor(usedIndices, 0)
      colorIndex == IF c0 >= PaletteSize THEN Len(ad.projects) % PaletteSize ELSE c0
      project == [id |-> s.nextId, weeklyHourTarget |-> weeklyHourTarget,
                  priority |-> priority, colorIndex |-> colorIndex]
      ad2 == [ad EXCEPT !.projects = Append(@, project)]
  IN  Out(ad2, s.currentMonday, s.saveTimeout, s.nextId + 1,
          <<Ev("saveProjects", ad2.projects, ad2)>> \o notify(ad2), project)

\* Object.assign(project, updates)
Assign(project, updates) ==
  [f \in DOMAIN project |-> IF f \in DOMAIN updates THEN updates[f] ELSE project[f]]

updateProject(s, id, updates) ==
  LET ad == s.appData
      idx == FindIndex(ad.projects, LAMBDA p : p.id = id)
  IN  IF idx # 0
      THEN LET ad2 == [ad EXCEPT !.projects[idx] = Assign(@, updates)]
           IN  Out(ad2, s.currentMonday, s.saveTimeout, s.nextId,
                   <<Ev("saveProjects", ad2.projects, ad2)>> \o notify(ad2), Null)
      ELSE NoChange(s, Null)

\* mutant of WithoutProject: the entries of the project leave the templates too
WithoutProject_Templates(ad, id) ==
  [ad EXCEPT !.projects = SelectSeq(@, LAMBDA p : p.id # id),
             !.templates = [i \in DOMAIN @ |->
                [@[i] EXCEPT !.blocks = SelectSeq(@, LAMBDA tb : tb.projectId # id)]]]

\* deleteProject, lines 199-203: the project, then its blocks in every week
WithoutProject(ad, id) ==
  [ad EXCEPT !.projects = SelectSeq(@, LAMBDA p : p.id # id)]

\* mutant of WithoutBlocksOf: only the first stored week is cleaned
WithoutBlocksOf_FirstWeek(ad, id) ==
  [ad EXCEPT !.weeks =
     [i \in DOMAIN @ |->
        IF i = 1 THEN [@[i] EXCEPT !.blocks = SelectSeq(@, LAMBDA b : b.projectId # id)]
        ELSE @[i]]]

WithoutBlocksOf(ad, id) ==
  [ad EXCEPT !.weeks =
     [i \in DOMAIN @ |->
        [@[i] EXCEPT !.blocks = SelectSeq(@, LAMBDA b : b.projectId # id)]]]

\* mutant of DeleteDispatchState: the writes go out before the cascade
DeleteDispatchState_Early(ad1, ad2) == ad1

\* the appData in which deleteProject dispatches its writes and notifies
\* (lines 204-209 run after both removals): ad1 has lost the project only,
\* ad2 the project and its blocks
DeleteDispatchState(ad1, ad2) == ad2

deleteProject(s, id) ==
  LET ad1 == WithoutProject(s.appData, id)
      ad2 == WithoutBlocksOf(ad1, id)
      seen == DeleteDispatchState(ad1, ad2)
      saves == [i \in DOMAIN seen.weeks |-> Ev("saveWeek", seen.weeks[i], seen)]
  IN  Out(ad2, s.currentMonday, s.saveTimeout, s.nextId,
          <<Ev("saveProjects", seen.projects, seen)>> \o saves \o notify(seen), Null)

(***************************************************************************)
(* Time block operations                                                   *)
(***************************************************************************)
\* mutants of SlotOccupied: no check at all; the day left out of the check
SlotOccupied_Never(week, day, slotIndex) == FALSE

SlotOccupied_AnyDay(week, day, slotIndex) ==
  \E i \in DOMAIN week.blocks : week.blocks[i].slotIndex = slotIndex

\* addTimeBlock, lines 223-226: the slot already holds a block
SlotOccupied(week, day, slotIndex) ==
  \E i \in DOMAIN week.blocks :
     week.blocks[i].day = day /\ week.blocks[i].slotIndex = slotIndex

addTimeBlock(s, projectId, day, slotIndex) ==
  LET week == getCurrentWeekData(s.appData, s.currentMonday)
  IN  IF SlotOccupied(week, day, slotIndex) THEN NoChange(s, Null)
      ELSE LET block == [id |-> s.nextId, projectId |-> projectId,
                         day |-> day, slotIndex |-> slotIndex]
           IN  CommitWeek(s, [week EXCEPT !.blocks = Append(@, block)],
                          s.nextId + 1, block)

\* mutant of WithoutSlot: the block in the slot is not removed
WithoutSlot_Kept(blocks, day, slot) == blocks

\* addTimeBlocks, lines 254-256: the blocks kept when slot is overwritten
WithoutSlot(blocks, day, slot) ==
  SelectSeq(blocks, LAMBDA b : ~(b.day = day /\ b.slotIndex = slot))

\* mutant of AddSlots: one identity, generated before the loop, for every block
RECURSIVE AddSlots_OneId(_, _, _, _, _)
AddSlots_OneId(acc, projectId, day, slot, maxSlot) ==
  IF slot > maxSlot THEN acc
  ELSE LET block == [id |-> acc.nextId - Len(acc.newBlocks), projectId |-> projectId,
                     day |-> day, slotIndex |-> slot]
       IN  AddSlots_OneId([blocks |-> Append(WithoutSlot(acc.blocks, day, slot), block),
                           newBlocks |-> Append(acc.newBlocks, block),
                           nextId |-> acc.nextId + 1],
                          projectId, day, slot + 1, maxSlot)

\* the for loop of addTimeBlocks from slot to maxSlot; acc = [blocks, newBlocks, nextId]
RECURSIVE AddSlots(_, _, _, _, _)
AddSlots(acc, projectId, day, slot, maxSlot) ==
  IF slot > maxSlot THEN acc
  ELSE LET block == [id |-> acc.nextId, projectId |-> projectId,
                     day |-> day, slotIndex |-> slot]
       IN  AddSlots([blocks |-> Append(WithoutSlot(acc.blocks, day, slot), block),
                     newBlocks |-> Append(acc.newBlocks, block),
                     nextId |-> acc.nextId + 1],
                    projectId, day, slot + 1, maxSlot)

addTimeBlocks(s, projectId, day, startSlot, endSlot) ==
  LET week == getCurrentWeekData(s.appData, s.currentMonday)
      minSlot == Min(startSlot, endSlot)
      maxSlot == Max(startSlot, endSlot)
      r == AddSlots([blocks |-> week.blocks, newBlocks |-> <<>>, nextId |-> s.nextId],
                    projectId, day, minSlot, maxSlot)
  IN  IF Len(r.newBlocks) > 0
      THEN CommitWeek(s, [week EXCEPT !.blocks = r.blocks], r.nextId, r.newBlocks)
      ELSE NoChange(s, r.newBlocks)

\* mutant of OutsideRange: the day is left out of the test
OutsideRange_AnyDay(blocks, day, minSlot, maxSlot) ==
  SelectSeq(blocks, LAMBDA b : ~(b.slotIndex >= minSlot /\ b.slotIndex <= maxSlot))

\* lines 285-287: the blocks that are not on the day within the slots
OutsideRange(blocks, day, minSlot, maxSlot) ==
  SelectSeq(blocks,
    LAMBDA b : ~(b.day = day /\ b.slotIndex >= minSlot /\ b.slotIndex <= maxSlot))

removeTimeBlocksInRange(s, day, startSlot, endSlot) ==
  LET week == getCurrentWeekData(s.appData, s.currentMonday)
      minSlot == Min(startSlot, endSlot)
      maxSlot == Max(startSlot, endSlot)
      before == Len(week.blocks)
      kept == OutsideRange(week.blocks, day, minSlot, maxSlot)
  IN  IF Len(kept) # before
      THEN CommitWeek(s, [week EXCEPT !.blocks = kept], s.nextId, Null)
      ELSE NoChange(s, Null)

removeTimeBlock(s, blockId) ==
  LET week == getCurrentWeekData(s.appData, s.currentMonday)
  IN  CommitWeek(s, [week EXCEPT !.blocks = SelectSeq(@, LAMBDA b : b.id # blockId)],
                 s.nextId, Null)

\* mutant of updateTimeBlockProject: the block is removed and a new one added
updateTimeBlockProject_Recreate(s, blockId, newProjectId) ==
  LET week == getCurrentWeekData(s.appData, s.currentMonday)
      idx == FindIndex(week.blocks, LAMBDA b : b.id = blockId)
  IN  IF idx # 0
      THEN CommitWeek(s, [week EXCEPT !.blocks =
                            Append(SelectSeq(@, LAMBDA b : b.id # blockId),
                                   [week.blocks[idx] EXCEPT !.projectId = newProjectId])],
                      s.nextId, Null)
      ELSE NoChange(s, Null)

updateTimeBlockProject(s, blockId, newProjectId) ==
  LET week == getCurrentWeekData(s.appData, s.currentMonday)
      idx == FindIndex(week.blocks, LAMBDA b : b.id = blockId)
  IN  IF idx # 0
      THEN CommitWeek(s, [week EXCEPT !.blocks[idx].projectId = newProjectId],
                      s.nextId, Null)
      ELSE NoChange(s, Null)

(***************************************************************************)
(* Templates                                                               *)
(***************************************************************************)
\* mutant of TemplateEntry: the slot of the block is not copied
TemplateEntry_NoSlot(b) == [projectId |-> b.projectId, day |-> b.day, slotIndex |-> 0]

\* lines 414-418: the block without its identity
TemplateEntry(b) == [projectId |-> b.projectId, day |-> b.day, slotIndex |-> b.slotIndex]

saveCurrentWeekAsTemplate(s) ==
  LET week == getCurrentWeekData(s.appData, s.currentMonday)
      template == [id |-> s.nextId,
                   blocks |-> [i \in DOMAIN week.blocks |-> TemplateEntry(week.blocks[i])]]
      ad == [s.appData EXCEPT !.templates = Append(@, template)]
  IN  Out(ad, s.currentMonday, s.saveTimeout, s.nextId + 1,
          <<Ev("saveTemplates", ad.templates, ad)>> \o notify(ad), template)

\* mutant of ApplyEntries: every entry is applied, its project deleted or not
RECURSIVE ApplyEntries_Unfiltered(_, _, _)
ApplyEntries_Unfiltered(acc, entries, projectIds) ==
  IF entries = <<>> THEN acc
  ELSE LET tb == Head(entries)
       IN  ApplyEntries_Unfiltered([blocks |-> Append(acc.blocks,
                                       [id |-> acc.nextId, projectId |-> tb.projectId,
                                        day |-> tb.day, slotIndex |-> tb.slotIndex]),
                                    nextId |-> acc.nextId + 1],
                                   Tail(entries), projectIds)

\* the for loop of applyTemplate over the template's entries
RECURSIVE ApplyEntries(_, _, _)
ApplyEntries(acc, entries, projectIds) ==
  IF entries = <<>> THEN acc
  ELSE LET tb == Head(entries)
       IN  IF tb.projectId \in projectIds
           THEN ApplyEntries([blocks |-> Append(acc.blocks,
                                 [id |-> acc.nextId, projectId |-> tb.projectId,
                                  day |-> tb.day, slotIndex |-> tb.slotIndex]),
                              nextId |-> acc.nextId + 1],
                             Tail(entries), projectIds)
           ELSE ApplyEntries(acc, Tail(entries), projectIds)

\* mutant of ClearedBlocks: the template is merged into the blocks of the week
ClearedBlocks_Merged(week) == week.blocks

\* line 432: week.blocks = []
ClearedBlocks(week) == <<>>

applyTemplate(s, templateId) ==
  LET idx == FindIndex(s.appData.templates, LAMBDA t : t.id = templateId)
  IN  IF idx = 0 THEN NoChange(s, Null)
      ELSE LET week == getCurrentWeekData(s.appData, s.currentMonday)
               r == ApplyEntries([blocks |-> ClearedBlocks(week), nextId |-> s.nextId],
                                 s.appData.templates[idx].blocks,
                                 ProjectIds(s.appData))
           IN  CommitWeek(s, [week EXCEPT !.blocks = r.blocks], r.nextId, Null)

deleteTemplate(s, templateId) ==
  LET ad == [s.appData EXCEPT !.templates = SelectSeq(@, LAMBDA t : t.id # templateId)]
  IN  Out(ad, s.currentMonday, s.saveTimeout, s.nextId,
          <<Ev("saveTemplates", ad.templates, ad)>> \o notify(ad), Null)

\* mutant of OnRejected: the failed write is dispatched again
OnRejected_Retry(s, write) ==
  Out(s.appData, s.currentMonday, s.saveTimeout, s.nextId,
      <<Ev("console.error", write, s.appData), Ev(write.kind, write.arg, s.appData)>>, Null)

\* .catch(console.error): the reaction to a write whose promise is rejected
OnRejected(s, write) ==
  Out(s.appData, s.currentMonday, s.saveTimeout, s.nextId,
      <<Ev("console.error", write, s.appData)>>, Null)

\* the callback armed by debouncedSaveWeek, lines 45-48
saveTimeoutCallback(s) ==
  LET week == getCurrentWeekData(s.appData, s.currentMonday)
  IN  Out(s.appData, s.currentMonday, "expired", s.nextId,
          <<Ev("saveWeek", week, s.appData)>>, Null)

(***************************************************************************)
(* Rolling balance calculation                                             *)
(* Hours are held in minutes: hoursLogged = blocks * SLOT_MINUTES,         *)
(* weeklyHourTarget hours = weeklyHourTarget * 60.                         *)
(***************************************************************************)
RECURSIVE InsertWeek(_, _)
InsertWeek(sorted, w) ==
  IF sorted = <<>> THEN <<w>>
  ELSE IF localeCompare(Head(sorted).weekKey, w.weekKey) <= 0
       THEN <<Head(sorted)>> \o InsertWeek(Tail(sorted), w)
       ELSE <<w>> \o sorted

\* Array.prototype.sort with (a, b) => a.weekKey.localeCompare(b.weekKey): stable
RECURSIVE SortWeeksFrom(_, _)
SortWeeksFrom(sorted, rest) ==
  IF rest = <<>> THEN sorted
  ELSE SortWeeksFrom(InsertWeek(sorted, Head(rest)), Tail(rest))

SortWeeks(weeks) == SortWeeksFrom(<<>>, weeks)

\* mutant of SortedCopy: appData.weeks.sort(...) sorts the stored array itself
SortedCopy_InPlace(weeks) == [array |-> SortWeeks(weeks), sorted |-> SortWeeks(weeks)]

\* [...appData.weeks].sort(...): the copy is sorted, appData.weeks stays as it is
SortedCopy(weeks) == [array |-> weeks, sorted |-> SortWeeks(weeks)]

BlocksOf(week, projectId) ==
  Len(SelectSeq(week.blocks, LAMBDA b : b.projectId = projectId))

\* mutant of CarryLoop: an empty week counts as a week without progress
RECURSIVE CarryLoop_CountEmpty(_, _, _, _)
CarryLoop_CountEmpty(weeks, currentKey, project, carryover) ==
  IF weeks = <<>> THEN carryover
  ELSE LET week == Head(weeks)
       IN  IF ~StrLess(week.weekKey, currentKey) THEN carryover
           ELSE CarryLoop_CountEmpty(Tail(weeks), currentKey, project,
                               carryover + project.weeklyHourTarget * 60
                                 - BlocksOf(week, project.id) * SLOT_MINUTES)

\* the carryover loop, lines 345-352, over the weeks still to visit
RECURSIVE CarryLoop(_, _, _, _)
CarryLoop(weeks, currentKey, project, carryover) ==
  IF weeks = <<>> THEN carryover
  ELSE LET week == Head(weeks)
       IN  IF ~StrLess(week.weekKey, currentKey) THEN carryover          \* break
           ELSE IF Len(week.blocks) = 0
                THEN CarryLoop(Tail(weeks), currentKey, project, carryover)  \* continue
                ELSE CarryLoop(Tail(weeks), currentKey, project,
                               carryover + project.weeklyHourTarget * 60
                                 - BlocksOf(week, project.id) * SLOT_MINUTES)

RECURSIVE GCD(_, _)
GCD(a, b) == IF b = 0 THEN a ELSE GCD(b, a % b)

\* The quotients p/q below 1, in lowest terms, for which p/q*100 is an exact
\* half and the binary64 evaluation of (p / q) * 100 comes out below it:
\* 23/40 = 0.575 is not a binary64 number and 0.575 * 100 evaluates to
\* 57.49999999999999; likewise 14.499999999999998, 28.499999999999996 and
\* 56.49999999999999.  Every other half p/q*100 below 100 (q is 8, 40 or 200)
\* evaluates to the half itself, and a value that is not a half is far from one.
HalvesBelow == {<<23, 40>>, <<29, 200>>, <<57, 200>>, <<113, 200>>}

\* Math.round((currentHours / effectiveAvailable) * 100) in binary64, for
\* currentHours >= 0 and effectiveAvailable > 0 on the half-hour grid; exact
\* up to the cap of 100 that line 386 applies
Round(currentHours, effectiveAvailable) ==
  LET g == GCD(currentHours, effectiveAvailable)
      p == currentHours \div g
      q == effectiveAvailable \div g
  IN  IF <<p, q>> \in HalvesBelow
      THEN (100 * p) \div q
      ELSE (200 * p + q) \div (2 * q)

\* mutant of PercentComplete: the quotient is taken whatever the sign of
\* effectiveAvailable
PercentComplete_NoGuard(currentHours, effectiveAvailable) ==
  Min(IF effectiveAvailable # 0
      THEN (200 * currentHours + effectiveAvailable) \div (2 * effectiveAvailable)
      ELSE 0,
      100)

\* lines 361-366 and Math.min(percentComplete, 100)
PercentComplete(currentHours, effectiveAvailable) ==
  Min(IF effectiveAvailable > 0
      THEN Round(currentHours, effectiveAvailable)
      ELSE IF currentHours > 0 THEN 100 ELSE 0,
      100)

\* mutant of Standing: no special case for a target of zero
Standing_NoZeroCase(currentHours, weeklyHourTarget) ==
  LET tolerance == Max(SLOT_MINUTES, weeklyHourTarget * 6)
      target == weeklyHourTarget * 60
  IN  IF currentHours > target + tolerance THEN "over"
      ELSE IF currentHours < target - tolerance THEN "under"
      ELSE "on-track"

\* lines 369-380; tolerance = max(0.5 h, 10% of the target) in minutes
Standing(currentHours, weeklyHourTarget) ==
  LET tolerance == Max(SLOT_MINUTES, weeklyHourTarget * 6)
      target == weeklyHourTarget * 60
  IN  IF weeklyHourTarget = 0 THEN "on-track"
      ELSE IF currentHours > target + tolerance THEN "over"
      ELSE IF currentHours < target - tolerance THEN "under"
      ELSE "on-track"

BalanceOf(project, sortedWeeks, currentKey, currentWeek) ==
  LET carryover == CarryLoop(sortedWeeks, currentKey, project, 0)
      currentHours == BlocksOf(currentWeek, project.id) * SLOT_MINUTES
      effectiveAvailable == project.weeklyHourTarget * 60 + carryover
  IN  [project |-> project,
       weeklyTarget |-> project.weeklyHourTarget * 60,
       currentWeekLogged |-> currentHours,
       carryoverBalance |-> carryover,
       effectiveAvailable |-> effectiveAvailable,
       percentComplete |-> PercentComplete(currentHours, effectiveAvailable),
       standing |-> Standing(currentHours, project.weeklyHourTarget)]

\* priorityOrder[p] ?? 2
priorityOrder(p) == IF p = "High" THEN 0 ELSE IF p = "Medium" THEN 1 ELSE 2

\* mutant of InsertBalance: an unstable sort, equal priorities change places
RECURSIVE InsertBalance_Unstable(_, _)
InsertBalance_Unstable(sorted, x) ==
  IF sorted = <<>> THEN <<x>>
  ELSE IF priorityOrder(Head(sorted).project.priority)
            - priorityOrder(x.project.priority) < 0
       THEN <<Head(sorted)>> \o InsertBalance_Unstable(Tail(sorted), x)
       ELSE <<x>> \o sorted

RECURSIVE InsertBalance(_, _)
InsertBalance(sorted, x) ==
  IF sorted = <<>> THEN <<x>>
  ELSE IF priorityOrder(Head(sorted).project.priority)
            - priorityOrder(x.project.priority) <= 0
       THEN <<Head(sorted)>> \o InsertBalance(Tail(sorted), x)
       ELSE <<x>> \o sorted

\* balances.sort(...) by priority: stable
RECURSIVE SortBalancesFrom(_, _)
SortBalancesFrom(sorted, rest) ==
  IF rest = <<>> THEN sorted
  ELSE SortBalancesFrom(InsertBalance(sorted, Head(rest)), Tail(rest))

SortBalances(balances) == SortBalancesFrom(<<>>, balances)

calculateProjectBalances(s) ==
  LET currentKey == getWeekKey(s.currentMonday)
      c == SortedCopy(s.appData.weeks)
      ad == [s.appData EXCEPT !.weeks = c.array]
      balances == [i \in DOMAIN ad.projects |->
                     BalanceOf(ad.projects[i], c.sorted, currentKey,
                               getCurrentWeekData(ad, s.currentMonday))]
  IN  Out(ad, s.currentMonday, s.saveTimeout, s.nextId, <<>>, SortBalances(balances))

(***************************************************************************)
(* The engine as a state machine                                           *)
(***************************************************************************)
\* load() with no prior data: empty collections, goal 40
DefaultAppData ==
  [projects |-> <<>>, weeks |-> <<>>, templates |-> <<>>,
   weeklyHourGoal |-> DefaultWeeklyHourGoal]

AllBlocks(ad) == UNION {Range(ad.weeks[i].blocks) : i \in DOMAIN ad.weeks}
BlockIds(ad) == {b.id : b \in AllBlocks(ad)}
TemplateIds(ad) == {t.id : t \in Range(ad.templates)}

Idle == [op |-> "idle", args |-> <<>>, result |-> Null, pre |-> Null]

(***************************************************************************)
(* Subscribers and the notification pass                                   *)
(***************************************************************************)
\* the callbacks that subscribe, and the subscriptions each one cancels when
\* it is invoked: 1 only reads the state, 2 unsubscribes itself, 3
\* unsubscribes callback 1
Listeners == {1, 2, 3}
Unsubscribed(l) == CASE l = 2 -> {2} [] l = 3 -> {1} [] OTHER -> {}

\* subscribe(listener): listeners.push(listener)
subscribe(ls, l) == Append(ls, l)

\* the function subscribe returns: listeners = listeners.filter((l) => l !== listener)
unsubscribe(ls, l) == SelectSeq(ls, LAMBDA x : x # l)

RECURSIVE UnsubscribeAll(_, _)
UnsubscribeAll(ls, S) ==
  IF S = {} THEN ls
  ELSE LET l == CHOOSE x \in S : TRUE
       IN  UnsubscribeAll(unsubscribe(ls, l), S \ {l})

\* mutant of Visited: the pass walks the array the variable holds now
Visited_Live(arr, ls) == ls

\* listeners.forEach walks the array it was called on; unsubscribing replaces
\* the variable by a filtered copy and leaves that array as it was
Visited(arr, ls) == arr

\* notify(), line 40, from index i on: arr is the array at the start of the
\* pass, ls the value of the variable, ad the state the callbacks read
RECURSIVE Deliver(_, _, _, _, _)
Deliver(arr, i, ls, calls, ad) ==
  LET visited == Visited(arr, ls)
  IN  IF i > Len(visited) THEN [listeners |-> ls, calls |-> calls]
      ELSE Deliver(arr, i + 1, UnsubscribeAll(ls, Unsubscribed(visited[i])),
                   Append(calls, Ev("listener", visited[i], ad)), ad)

\* mutant of Dispatch: the callbacks are not invoked during the call
Dispatch_Deferred(evs, ls) == [events |-> evs, listeners |-> ls]

\* what a handler dispatched, with the callbacks each notify() invoked
RECURSIVE Dispatch(_, _)
Dispatch(evs, ls) ==
  IF evs = <<>> THEN [events |-> <<>>, listeners |-> ls]
  ELSE LET e == Head(evs)
           d == IF e.kind = "notify" THEN Deliver(ls, 1, ls, <<>>, e.appData)
                ELSE [listeners |-> ls, calls |-> <<>>]
           rest == Dispatch(Tail(evs), d.listeners)
       IN  [events |-> <<e>> \o d.calls \o rest.events, listeners |-> rest.listeners]

(***************************************************************************)
(* The runtime's timers                                                    *)
(***************************************************************************)
\* the pending timers after the clearTimeout and setTimeout calls of evs;
\* handle tells whether saveTimeout designates a pending timer, the last set
RECURSIVE RunTimers(_, _, _)
RunTimers(evs, ts, handle) ==
  IF evs = <<>> THEN ts
  ELSE LET e == Head(evs)
       IN  IF e.kind = "clearTimeout"
           THEN RunTimers(Tail(evs),
                          IF handle = "armed" /\ ts # <<>>
                          THEN SubSeq(ts, 1, Len(ts) - 1) ELSE ts,
                          "null")
           ELSE IF e.kind = "setTimeout"
           THEN RunTimers(Tail(evs), Append(ts, e.arg), "armed")
           ELSE RunTimers(Tail(evs), ts, handle)

HasEvent(evs, kind) == \E i \in DOMAIN evs : evs[i].kind = kind

\* the blocks the week collection holds under key
WeekBlocks(ad, key) ==
  IF WeekIndex(ad.weeks, key) # 0 THEN ad.weeks[WeekIndex(ad.weeks, key)].blocks
  ELSE <<>>

WeekKeys(ad) == {ad.weeks[i].weekKey : i \in DOMAIN ad.weeks}

TriplesOf(blocks) ==
  {[projectId |-> blocks[i].projectId, day |-> blocks[i].day,
    slotIndex |-> blocks[i].slotIndex] : i \in DOMAIN blocks}

\* what savedFrom keeps of the week a template is saved from
SourceOf(week) == [weekKey |-> week.weekKey, triples |-> TriplesOf(week.blocks)]

\* the value of unsaved in a run that keeps no record of the unwritten weeks:
\* the empty key, which no week carries
NotRecorded == {<<>>}

\* the weeks left unwritten after a call: those whose blocks it changed join,
\* those a saveWeek of the call carried with their latest blocks leave, as do
\* all of them when saveAppData carried the whole of the data
Unsaved(before, pre, post, evs) ==
  LET changed == {k \in WeekKeys(pre) \cup WeekKeys(post) :
                    WeekBlocks(pre, k) # WeekBlocks(post, k)}
      written == {evs[i].arg.weekKey : i \in {j \in DOMAIN evs :
                    /\ evs[j].kind = "saveWeek"
                    /\ evs[j].arg.blocks = WeekBlocks(post, evs[j].arg.weekKey)}}
                 \cup (IF \E j \in DOMAIN evs :
                            evs[j].kind = "saveAppData" /\ evs[j].arg = post
                       THEN WeekKeys(post) ELSE {})
  IN  IF before = NotRecorded THEN NotRecorded
      ELSE (before \cup changed) \ written

\* the calls of the storage module: each returns a promise (storage.ts)
WriteKinds == {"saveAppData", "saveProjects", "saveWeek", "saveTemplates"}

\* the value of inflight in a run that does not follow the writes
NotFollowed == <<Null>>

\* the unsettled writes after a call: those it dispatched join, in order
Inflight(before, evs) ==
  LET ws == SelectSeq(evs, LAMBDA e : e.kind \in WriteKinds)
  IN  IF before = NotFollowed THEN NotFollowed
      ELSE before \o [i \in DOMAIN ws |-> [kind |-> ws[i].kind, arg |-> ws[i].arg]]

\* a call of op with args whose outcome is r, the runtime holding the timers ts
\* and the unsettled writes fl
Call(op, args, r, ts, fl) ==
  LET d == Dispatch(r.events, listeners)
  IN  /\ last.op = "idle"
      /\ r.nextId # nextId => created < MaxCreates
      /\ fl # NotFollowed => Len(fl) < MaxInflight
      /\ inflight' = Inflight(fl, r.events)
      /\ appData' = r.appData
      /\ currentMonday' = r.currentMonday
      /\ saveTimeout' = r.saveTimeout
      /\ nextId' = r.nextId
      /\ last' = [op |-> op, args |-> args, result |-> r.result, pre |-> St]
      /\ events' = d.events
      /\ listeners' = d.listeners
      /\ created' = IF r.nextId # nextId THEN created + 1 ELSE created
      /\ timers' = RunTimers(r.events, ts, saveTimeout)
      /\ sinceMutation' = IF HasEvent(r.events, "setTimeout") THEN 0 ELSE sinceMutation
      /\ unsaved' = Unsaved(unsaved, appData, r.appData, r.events)
      /\ writes' = IF HasEvent(r.events, "setTimeout") THEN 0
                   ELSE IF op = "saveTimeout" /\ HasEvent(r.events, "saveWeek")
                        THEN writes + 1 ELSE writes
      /\ savedFrom' = IF op = "saveCurrentWeekAsTemplate"
                      THEN savedFrom @@ (r.result.id :>
                             SourceOf(getCurrentWeekData(appData, currentMonday)))
                      ELSE savedFrom

\* a call of op with args, made from the event loop, whose outcome is r
Apply(op, args, r) == Call(op, args, r, timers, inflight)

StOf(r) == [appData |-> r.appData, currentMonday |-> r.currentMonday,
            saveTimeout |-> r.saveTimeout, nextId |-> r.nextId]

\* An earlier session of the program, whose data the storage holds: two
\* projects, a week with a block of each on Monday saved as a template, and a
\* Tuesday block in the week after.
Session0 == [appData |-> ensureCurrentWeek(DefaultAppData, FirstMonday),
             currentMonday |-> FirstMonday, saveTimeout |-> "null", nextId |-> 1]
Session1 == StOf(addProject(Session0, 1, "High"))
Session2 == StOf(addProject(Session1, 0, "Low"))
Session3 == StOf(addTimeBlock(Session2, 1, "Monday", 0))
Session4 == StOf(addTimeBlock(Session3, 2, "Monday", 2))
Session5 == StOf(saveCurrentWeekAsTemplate(Session4))
Session6 == StOf(navigateWeek(Session5, 1))
Session7 == StOf(addTimeBlock(Session6, 2, "Tuesday", 1))

\* what loadAppData() may return: the defaults, or the data of that session
Stored == {[appData |-> DefaultAppData, nextId |-> 1, savedFrom |-> <<>>],
           [appData |-> Session7.appData, nextId |-> Session7.nextId,
            savedFrom |-> (Session5.appData.templates[1].id :>
                             SourceOf(getCurrentWeekData(Session4.appData,
                                                         Session4.currentMonday)))]}

\* a fresh process: nobody has subscribed and no timer runs
Fresh ==
  /\ listeners = <<>>
  /\ timers = <<>>
  /\ sinceMutation = SAVE_DEBOUNCE_MS
  /\ writes = 0

\* initState() at a date today
Init ==
  \E stored \in Stored, today \in Todays :
     /\ currentMonday = getMonday(today)
     /\ appData = ensureCurrentWeek(stored.appData, getMonday(today))
     /\ saveTimeout = "null"
     /\ nextId = stored.nextId
     /\ savedFrom = stored.savedFrom
     /\ unsaved = NotRecorded
     /\ inflight = NotFollowed
     /\ Fresh
     /\ created = 0
     /\ last = [op |-> "initState", args |-> <<>>, result |-> Null, pre |-> Null]
     /\ events = notify(appData)

ActNavigateWeek ==
  \E direction \in {-1, 1} :
     /\ currentMonday + direction * 7 \in Mondays
     /\ Apply("navigateWeek", <<direction>>, navigateWeek(St, direction))

ActGoToToday ==
  \E today \in Todays : Apply("goToToday", <<>>, goToToday(St, today))

ActAddProject ==
  \E t \in TargetInputs, p \in PriorityInputs :
     Apply("addProject", <<t, p>>, addProject(St, t, p))

ActUpdateProject ==
  \E id \in ProjectIds(appData) \cup {UnknownId}, u \in UpdateInputs :
     Apply("updateProject", <<id, u>>, updateProject(St, id, u))

ActDeleteProject ==
  \E id \in ProjectIds(appData) \cup {UnknownId} :
     Apply("deleteProject", <<id>>, deleteProject(St, id))

ActAddTimeBlock ==
  \E p \in ProjectIds(appData), day \in DayInputs, slot \in SlotInputs :
     Apply("addTimeBlock", <<p, day, slot>>, addTimeBlock(St, p, day, slot))

ActAddTimeBlocks ==
  \E p \in ProjectIds(appData), day \in DayInputs, a \in SlotInputs, b \in SlotInputs :
     Apply("addTimeBlocks", <<p, day, a, b>>, addTimeBlocks(St, p, day, a, b))

ActRemoveTimeBlocksInRange ==
  \E day \in DayInputs, a \in SlotInputs, b \in SlotInputs :
     Apply("removeTimeBlocksInRange", <<day, a, b>>,
           removeTimeBlocksInRange(St, day, a, b))

ActRemoveTimeBlock ==
  \E id \in BlockIds(appData) \cup {UnknownId} :
     Apply("removeTimeBlock", <<id>>, removeTimeBlock(St, id))

ActUpdateTimeBlockProject ==
  \E id \in BlockIds(appData) \cup {UnknownId}, p \in ProjectIds(appData) :
     Apply("updateTimeBlockProject", <<id, p>>, updateTimeBlockProject(St, id, p))

ActSaveCurrentWeekAsTemplate ==
  Apply("saveCurrentWeekAsTemplate", <<>>, saveCurrentWeekAsTemplate(St))

ActApplyTemplate ==
  \E id \in TemplateIds(appData) \cup {UnknownId} :
     Apply("applyTemplate", <<id>>, applyTemplate(St, id))

ActDeleteTemplate ==
  \E id \in TemplateIds(appData) \cup {UnknownId} :
     Apply("deleteTemplate", <<id>>, deleteTemplate(St, id))

ActCalculateProjectBalances ==
  Apply("calculateProjectBalances", <<>>, calculateProjectBalances(St))

\* the debounce timer expires and its callback runs
ActSaveTimeoutFires ==
  \E i \in DOMAIN timers :
     /\ timers[i] = 0
     /\ Call("saveTimeout", <<>>, saveTimeoutCallback(St),
             SubSeq(timers, 1, i - 1) \o SubSeq(timers, i + 1, Len(timers)), inflight)

\* the call has returned and its callbacks have run: back to the event loop
ActReturn ==
  /\ last.op # "idle"
  /\ last' = Idle
  /\ events' = <<>>
  /\ UNCHANGED <<appData, currentMonday, saveTimeout, nextId, created,
                 listeners, timers, sinceMutation, unsaved, writes, savedFrom, inflight>>

\* The block store, the template engine, the cascading delete and navigation
Next ==
  \/ ActReturn
  \/ ActNavigateWeek
  \/ ActDeleteProject
  \/ ActAddTimeBlock
  \/ ActAddTimeBlocks
  \/ ActRemoveTimeBlocksInRange
  \/ ActRemoveTimeBlock
  \/ ActUpdateTimeBlockProject
  \/ ActSaveCurrentWeekAsTemplate
  \/ ActApplyTemplate

Spec == Init /\ [][Next]_vars

(***************************************************************************)
(* Debounced persistence: mutations, navigation, the clock and the timer   *)
(***************************************************************************)
\* the steps, in milliseconds, by which the clock advances
TickInputs == {SAVE_DEBOUNCE_MS \div 2}

\* time passes between two calls, up to the moment the next timer is due
ActTick ==
  \E dt \in TickInputs :
     /\ last.op = "idle"
     /\ \A i \in DOMAIN timers : timers[i] > 0
     /\ timers' = [i \in DOMAIN timers |-> Max(0, timers[i] - dt)]
     /\ sinceMutation' = Min(SAVE_DEBOUNCE_MS, sinceMutation + dt)
     /\ UNCHANGED <<appData, currentMonday, saveTimeout, nextId, created, last, events,
                    listeners, unsaved, writes, savedFrom, inflight>>

\* initState(), the run keeping the record of the unwritten weeks
InitSave ==
  \E stored \in Stored, today \in Todays :
     /\ currentMonday = getMonday(today)
     /\ appData = ensureCurrentWeek(stored.appData, getMonday(today))
     /\ saveTimeout = "null"
     /\ nextId = stored.nextId
     /\ savedFrom = stored.savedFrom
     /\ unsaved = {}
     /\ inflight = NotFollowed
     /\ Fresh
     /\ created = 0
     /\ last = [op |-> "initState", args |-> <<>>, result |-> Null, pre |-> Null]
     /\ events = notify(appData)

NextSave ==
  \/ ActReturn
  \/ ActTick
  \/ ActSaveTimeoutFires
  \/ ActNavigateWeek
  \/ ActAddTimeBlock
  \/ ActRemoveTimeBlocksInRange

\* the event loop returns from every call, the clock advances, and a timer
\* that is due has its callback run
SpecSave ==
  /\ InitSave /\ [][NextSave]_vars
  /\ WF_vars(ActReturn)
  /\ SF_vars(ActTick)
  /\ SF_vars(ActSaveTimeoutFires)

(***************************************************************************)
(* Persistence writes that fail                                            *)
(***************************************************************************)
GoalInputs == {30}

ActSetWeeklyHourGoal ==
  \E hours \in GoalInputs :
     Apply("setWeeklyHourGoal", <<hours>>, setWeeklyHourGoal(St, hours))

Settled(i) == SubSeq(inflight, 1, i - 1) \o SubSeq(inflight, i + 1, Len(inflight))

\* the gateway completes a write: its promise is fulfilled, nothing reacts
ActWriteResolves ==
  \E i \in DOMAIN inflight :
     /\ inflight # NotFollowed
     /\ Call("writeResolved", <<inflight[i]>>, NoChange(St, Null), timers, Settled(i))

\* the gateway fails a write: its promise is rejected and the catch reaction runs
ActWriteRejected ==
  \E i \in DOMAIN inflight :
     /\ inflight # NotFollowed
     /\ Call("writeRejected", <<inflight[i]>>, OnRejected(St, inflight[i]), timers,
             Settled(i))

\* initState(), the run following every write up to its settlement
InitFail ==
  \E stored \in Stored, today \in Todays :
     /\ currentMonday = getMonday(today)
     /\ appData = ensureCurrentWeek(stored.appData, getMonday(today))
     /\ saveTimeout = "null"
     /\ nextId = stored.nextId
     /\ savedFrom = stored.savedFrom
     /\ unsaved = NotRecorded
     /\ inflight = <<>>
     /\ Fresh
     /\ created = 0
     /\ last = [op |-> "initState", args |-> <<>>, result |-> Null, pre |-> Null]
     /\ events = notify(appData)

NextFail ==
  \/ ActReturn
  \/ ActTick
  \/ ActSaveTimeoutFires
  \/ ActWriteResolves
  \/ ActWriteRejected
  \/ ActSetWeeklyHourGoal
  \/ ActDeleteProject
  \/ ActRemoveTimeBlocksInRange
  \/ ActDeleteTemplate

SpecFail == InitFail /\ [][NextFail]_vars

(***************************************************************************)
(* The week collection under navigation and under project, block and       *)
(* template operations                                                     *)
(***************************************************************************)
NextWeeks ==
  \/ ActReturn
  \/ ActNavigateWeek
  \/ ActGoToToday
  \/ ActDeleteProject
  \/ ActAddTimeBlock
  \/ ActRemoveTimeBlocksInRange
  \/ ActRemoveTimeBlock
  \/ ActApplyTemplate
  \/ ActDeleteTemplate

SpecWeeks == Init /\ [][NextWeeks]_vars

(***************************************************************************)
(* The calendar: week keys over the years                                  *)
(***************************************************************************)
\* the 7 January of each of those years: its week begins on the first Monday
\* of the year
CalendarDays == {Jan1Of(Epoch.year + k) + 6 : k \in 0..(CalendarYears - 1)}

\* initState() in the first full week of a year, the storage holding nothing
InitCalendar ==
  \E today \in CalendarDays :
     /\ currentMonday = getMonday(today)
     /\ appData = ensureCurrentWeek(DefaultAppData, getMonday(today))
     /\ saveTimeout = "null"
     /\ nextId = 1
     /\ savedFrom = <<>>
     /\ unsaved = NotRecorded
     /\ inflight = NotFollowed
     /\ Fresh
     /\ created = 0
     /\ last = [op |-> "initState", args |-> <<>>, result |-> Null, pre |-> Null]
     /\ events = notify(appData)

\* navigateWeek(1), week after week through the year and the year after it
ActNavigateYears ==
  /\ Len(appData.weeks) < MaxVisited
  /\ Apply("navigateWeek", <<1>>, navigateWeek(St, 1))

NextCalendar ==
  \/ ActReturn
  \/ ActNavigateYears

SpecCalendar == InitCalendar /\ [][NextCalendar]_vars

(***************************************************************************)
(* The colour palette: projects added to and deleted from a long list      *)
(***************************************************************************)
\* the state after n calls of addProject in a session that started empty
RECURSIVE Added(_)
Added(n) == IF n = 0 THEN Session0 ELSE StOf(addProject(Added(n - 1), 1, "High"))

\* how many projects the storage holds: none, as many as the palette has
\* colours, or one more
PaletteCounts == {0, PaletteSize, PaletteSize + 1}

InitPalette ==
  \E n \in PaletteCounts, today \in Todays :
     /\ currentMonday = getMonday(today)
     /\ appData = ensureCurrentWeek(Added(n).appData, getMonday(today))
     /\ saveTimeout = "null"
     /\ nextId = Added(n).nextId
     /\ savedFrom = <<>>
     /\ unsaved = NotRecorded
     /\ inflight = NotFollowed
     /\ Fresh
     /\ created = 0
     /\ last = [op |-> "initState", args |-> <<>>, result |-> Null, pre |-> Null]
     /\ events = notify(appData)

\* the places in the list of the projects that get deleted: the first, the
\* sixth and the last
DeletePositions(n) == {1, PaletteSize \div 2, n} \cap (1..n)

ActDeleteListed ==
  \E i \in DeletePositions(Len(appData.projects)) :
     Apply("deleteProject", <<appData.projects[i].id>>,
           deleteProject(St, appData.projects[i].id))

NextPalette ==
  \/ ActReturn
  \/ ActAddProject
  \/ ActDeleteListed

SpecPalette == InitPalette /\ [][NextPalette]_vars

(***************************************************************************)
(* Subscribers: subscribing, unsubscribing, and calls that notify          *)
(***************************************************************************)
\* the user interface subscribes a callback
ActSubscribe ==
  \E l \in Listeners \ Range(listeners) :
     /\ last.op = "idle"
     /\ listeners' = subscribe(listeners, l)
     /\ last' = [op |-> "subscribe", args |-> <<l>>, result |-> Null, pre |-> St]
     /\ events' = <<>>
     /\ UNCHANGED <<appData, currentMonday, saveTimeout, nextId, created,
                    timers, sinceMutation, unsaved, writes, savedFrom, inflight>>

\* the function that subscribe returned is called from the event loop
ActUnsubscribe ==
  \E l \in Range(listeners) :
     /\ last.op = "idle"
     /\ listeners' = unsubscribe(listeners, l)
     /\ last' = [op |-> "unsubscribe", args |-> <<l>>, result |-> Null, pre |-> St]
     /\ events' = <<>>
     /\ UNCHANGED <<appData, currentMonday, saveTimeout, nextId, created,
                    timers, sinceMutation, unsaved, writes, savedFrom, inflight>>

NextNotify ==
  \/ ActReturn
  \/ ActSubscribe
  \/ ActUnsubscribe
  \/ ActNavigateWeek
  \/ ActAddTimeBlock
  \/ ActRemoveTimeBlocksInRange

SpecNotify == Init /\ [][NextNotify]_vars

(***************************************************************************)
(* Calls by identity, of entities that exist and of entities that do not   *)
(***************************************************************************)
NextLookup ==
  \/ ActReturn
  \/ ActUpdateProject
  \/ ActDeleteProject
  \/ ActRemoveTimeBlock
  \/ ActUpdateTimeBlockProject
  \/ ActApplyTemplate
  \/ ActDeleteTemplate

SpecLookup == Init /\ [][NextLookup]_vars

(***************************************************************************)
(* The template engine: save, empty, navigate, apply                       *)
(***************************************************************************)
\* initState(), with MaxTemplateCreates creating calls to come
InitTemplate ==
  \E stored \in Stored, today \in Todays :
     /\ currentMonday = getMonday(today)
     /\ appData = ensureCurrentWeek(stored.appData, getMonday(today))
     /\ saveTimeout = "null"
     /\ nextId = stored.nextId
     /\ savedFrom = stored.savedFrom
     /\ unsaved = NotRecorded
     /\ inflight = NotFollowed
     /\ Fresh
     /\ created = MaxCreates - MaxTemplateCreates
     /\ last = [op |-> "initState", args |-> <<>>, result |-> Null, pre |-> Null]
     /\ events = notify(appData)

NextTemplate ==
  \/ ActReturn
  \/ ActNavigateWeek
  \/ ActRemoveTimeBlocksInRange
  \/ ActRemoveTimeBlock
  \/ ActSaveCurrentWeekAsTemplate
  \/ ActApplyTemplate

SpecTemplate == InitTemplate /\ [][NextTemplate]_vars

\* applying templates after projects were deleted
NextApply ==
  \/ ActReturn
  \/ ActNavigateWeek
  \/ ActDeleteProject
  \/ ActAddTimeBlock
  \/ ActApplyTemplate

SpecApply == Init /\ [][NextApply]_vars

(***************************************************************************)
(* Writes of the project list and of the template list, with the clock     *)
(***************************************************************************)
NextLists ==
  \/ ActReturn
  \/ ActTick
  \/ ActSaveTimeoutFires
  \/ ActAddProject
  \/ ActUpdateProject
  \/ ActAddTimeBlock
  \/ ActSaveCurrentWeekAsTemplate
  \/ ActDeleteTemplate

SpecLists == InitTemplate /\ [][NextLists]_vars

(***************************************************************************)
(* The Monday of a date: every day of the window as "new Date()"           *)
(***************************************************************************)
\* every day of the weeks of the window, 22 December 2025 to 4 January 2026
WindowDays == FirstMonday..(FirstMonday + 7 * MaxWeeks - 1)

\* initState() at a date today, which the record of the call keeps
InitMonday ==
  \E stored \in Stored, today \in WindowDays :
     /\ currentMonday = getMonday(today)
     /\ appData = ensureCurrentWeek(stored.appData, getMonday(today))
     /\ saveTimeout = "null"
     /\ nextId = stored.nextId
     /\ savedFrom = stored.savedFrom
     /\ unsaved = NotRecorded
     /\ inflight = NotFollowed
     /\ Fresh
     /\ created = 0
     /\ last = [op |-> "initState", args |-> <<today>>, result |-> Null, pre |-> Null]
     /\ events = notify(appData)

\* goToToday() at a date today, which the record of the call keeps
ActGoToDay ==
  \E today \in WindowDays : Apply("goToToday", <<today>>, goToToday(St, today))

NextMonday ==
  \/ ActReturn
  \/ ActNavigateWeek
  \/ ActGoToDay
  \/ ActAddTimeBlock

SpecMonday == InitMonday /\ [][NextMonday]_vars

(***************************************************************************)
(* Templates and what may touch them                                       *)
(***************************************************************************)
NextSnapshot ==
  \/ ActReturn
  \/ ActDeleteProject
  \/ ActRemoveTimeBlock
  \/ ActUpdateTimeBlockProject
  \/ ActSaveCurrentWeekAsTemplate
  \/ ActApplyTemplate
  \/ ActDeleteTemplate

SpecSnapshot == InitTemplate /\ [][NextSnapshot]_vars

(***************************************************************************)
(* The balance calculator over stored histories                            *)
(***************************************************************************)
\* n blocks of a project from grid position from on, row by row through the
\* week's grid, with identities from id on
GridBlocks(projectId, n, from, id) ==
  [k \in 1..n |->
     [id |-> id + k - 1, projectId |-> projectId,
      day |-> DAYS[((from + k - 1) \div SLOTS_PER_DAY) + 1],
      slotIndex |-> (from + k - 1) % SLOTS_PER_DAY]]

\* the week of monday with n1 blocks of project 1 and n2 blocks of project 2
StoredWeek(monday, n1, n2, id) ==
  [weekKey |-> getWeekKey(monday),
   blocks |-> GridBlocks(1, n1, 0, id) \o GridBlocks(2, n2, n1, id + n1)]

StoredProject(id, target, priority) ==
  [id |-> id, weeklyHourTarget |-> target, priority |-> priority, colorIndex |-> id - 1]

\* the weeks the storage holds: the one before the window and its first two
StoredMondays == <<FirstMonday - 7, FirstMonday, FirstMonday + 7>>
\* the orders in which the storage may hold them
StoredOrders == {<<1, 2, 3>>, <<3, 1, 2>>}

BalanceTargets == {0, 1, 10}
BalanceCounts == <<{0, 12}, {0, 3, 10, 12}, {0, 1, 3, 4, 10, 12, 17, 18, 22, 23}>>
Priorities == {"High", "Medium", "Low"}

StoredHistory(projects, c1, c2, order) ==
  LET week(i) == StoredWeek(StoredMondays[i], c1[i], c2[i], 100 * i)
  IN  [projects |-> projects,
       weeks |-> [k \in 1..3 |-> week(order[k])],
       templates |-> <<>>,
       weeklyHourGoal |-> DefaultWeeklyHourGoal]

\* two projects and their logged blocks over three weeks
StoredHours ==
  {StoredHistory(<<StoredProject(1, t, "High"), StoredProject(2, 1, "Low")>>,
                 <<a1, a2, a3>>, <<b1, b2, b3>>, order) :
     t \in BalanceTargets,
     a1 \in BalanceCounts[1], a2 \in BalanceCounts[2], a3 \in BalanceCounts[3],
     b1 \in {0, 1}, b2 \in {0, 1}, b3 \in {0, 1},
     order \in StoredOrders}

\* three projects of any priorities
StoredPriorities ==
  {StoredHistory(<<StoredProject(1, 1, p1), StoredProject(2, 1, p2),
                   StoredProject(3, 1, p3)>>,
                 <<1, 0, 1>>, <<0, 0, 1>>, <<1, 2, 3>>) :
     p1 \in Priorities, p2 \in Priorities, p3 \in Priorities}

InitBalance ==
  \E stored \in StoredHours \cup StoredPriorities, today \in Todays :
     /\ currentMonday = getMonday(today)
     /\ appData = ensureCurrentWeek(stored, getMonday(today))
     /\ saveTimeout = "null"
     /\ nextId = 1000
     /\ savedFrom = <<>>
     /\ unsaved = NotRecorded
     /\ inflight = NotFollowed
     /\ Fresh
     /\ created = 0
     /\ last = [op |-> "initState", args |-> <<>>, result |-> Null, pre |-> Null]
     /\ events = notify(appData)

\* a second call right after the first, nothing having happened in between
ActCalculateAgain ==
  /\ last.op = "calculateProjectBalances"
  /\ LET r == calculateProjectBalances(St)
     IN  /\ appData' = r.appData
         /\ currentMonday' = r.currentMonday
         /\ saveTimeout' = r.saveTimeout
         /\ nextId' = r.nextId
         /\ events' = r.events
         /\ last' = [op |-> "calculateProjectBalances", args |-> <<last.result>>,
                     result |-> r.result, pre |-> St]
  /\ UNCHANGED <<created, listeners, timers, sinceMutation, unsaved, writes, savedFrom,
                 inflight>>

NextBalance ==
  \/ ActReturn
  \/ ActNavigateWeek
  \/ ActCalculateProjectBalances
  \/ ActCalculateAgain

SpecBalance == InitBalance /\ [][NextBalance]_vars

(***************************************************************************)
(* Properties of the block store, the templates and the cascading delete   *)
(***************************************************************************)
CurrentWeek == getCurrentWeekData(appData, currentMonday)
PreWeek == getCurrentWeekData(last.pre.appData, last.pre.currentMonday)

BlocksAt(week, day, slot) ==
  SelectSeq(week.blocks, LAMBDA b : b.day = day /\ b.slotIndex = slot)
BlocksOnDay(week, day) == SelectSeq(week.blocks, LAMBDA b : b.day = day)
References(ad, id) == {b \in AllBlocks(ad) : b.projectId = id}

\* C1: in every reachable state, every stored week holds at most one block
\* for each (day, slotIndex) pair.
C1_SlotUniqueness ==
  \A w \in DOMAIN appData.weeks :
     \A i, j \in DOMAIN appData.weeks[w].blocks :
        (appData.weeks[w].blocks[i].day = appData.weeks[w].blocks[j].day /\
         appData.weeks[w].blocks[i].slotIndex = appData.weeks[w].blocks[j].slotIndex)
        => i = j

\* a range was added over a slot that held a block
C1_Witness ==
  /\ last.op = "addTimeBlocks"
  /\ \E b \in Range(PreWeek.blocks) :
        /\ b.day = last.args[2]
        /\ b.slotIndex >= Min(last.args[3], last.args[4])
        /\ b.slotIndex <= Max(last.args[3], last.args[4])

\* C2: when deleteProject(id) has returned, the project is gone and no block
\* of any week references id.
C2_DeleteCascades ==
  last.op = "deleteProject" =>
     /\ last.args[1] \notin ProjectIds(appData)
     /\ References(appData, last.args[1]) = {}

\* the deleted project had blocks in the current week and in another one
C2_Witness ==
  /\ last.op = "deleteProject"
  /\ last.args[1] \in ProjectIds(last.pre.appData)
  /\ \E i, j \in DOMAIN last.pre.appData.weeks :
        /\ last.pre.appData.weeks[i].weekKey = getWeekKey(last.pre.currentMonday)
        /\ last.pre.appData.weeks[j].weekKey # getWeekKey(last.pre.currentMonday)
        /\ BlocksOf(last.pre.appData.weeks[i], last.args[1]) > 0
        /\ BlocksOf(last.pre.appData.weeks[j], last.args[1]) > 0

\* C3: whatever deleteProject(id) hands to a subscriber or to the storage, it
\* hands over when the project is already gone and no block references id:
\* the appData of that moment, the project list written and each week written.
C3_DeleteAtomic ==
  last.op = "deleteProject" =>
     \A k \in DOMAIN events :
        /\ last.args[1] \notin ProjectIds(events[k].appData)
        /\ References(events[k].appData, last.args[1]) = {}
        /\ events[k].kind = "saveProjects" =>
              \A p \in Range(events[k].arg) : p.id # last.args[1]
        /\ events[k].kind = "saveWeek" =>
              \A b \in Range(events[k].arg.blocks) : b.projectId # last.args[1]

\* a project with blocks was deleted: writes were dispatched and subscribers notified
C3_Witness ==
  /\ last.op = "deleteProject"
  /\ References(last.pre.appData, last.args[1]) # {}
  /\ \E k \in DOMAIN events : events[k].kind = "saveWeek"
  /\ \E k \in DOMAIN events : events[k].kind = "notify"

\* C4 as stated: after addTimeBlocks(project, day, a, b) the day holds exactly
\* |b-a|+1 blocks, each of the new project.
C4_Original ==
  last.op = "addTimeBlocks" =>
     LET day == last.args[2]
         n == Max(last.args[3], last.args[4]) - Min(last.args[3], last.args[4]) + 1
     IN  /\ Len(BlocksOnDay(CurrentWeek, day)) = n
         /\ \A b \in Range(BlocksOnDay(CurrentWeek, day)) : b.projectId = last.args[1]

\* C4 amended: after addTimeBlocks(project, day, a, b) every slot of
\* [min(a,b), max(a,b)] of that day holds exactly one block, of the new
\* project, these |b-a|+1 blocks are the ones returned, and the blocks of the
\* week outside that range are the ones that were there before.
C4_RangeOverwritten ==
  last.op = "addTimeBlocks" =>
     LET day == last.args[2]
         lo == Min(last.args[3], last.args[4])
         hi == Max(last.args[3], last.args[4])
         inRange(b) == b.day = day /\ b.slotIndex >= lo /\ b.slotIndex <= hi
     IN  /\ \A slot \in lo..hi :
              /\ Len(BlocksAt(CurrentWeek, day, slot)) = 1
              /\ BlocksAt(CurrentWeek, day, slot)[1].projectId = last.args[1]
         /\ Len(last.result) = hi - lo + 1
         /\ Range(last.result) = {b \in Range(CurrentWeek.blocks) : inRange(b)}
         /\ SelectSeq(CurrentWeek.blocks, LAMBDA b : ~inRange(b))
              = SelectSeq(PreWeek.blocks, LAMBDA b : ~inRange(b))

\* a range of two slots or more, one of them occupied by another project,
\* on a day that also held a block outside the range
C4_Witness ==
  /\ last.op = "addTimeBlocks"
  /\ last.args[3] # last.args[4]
  /\ \E b, c \in Range(PreWeek.blocks) :
        /\ b.day = last.args[2] /\ c.day = last.args[2]
        /\ b.projectId # last.args[1]
        /\ b.slotIndex >= Min(last.args[3], last.args[4])
        /\ b.slotIndex <= Max(last.args[3], last.args[4])
        /\ c.slotIndex > Max(last.args[3], last.args[4])

\* every identity an entity of ad carries
IdsOf(ad) == ProjectIds(ad) \cup BlockIds(ad) \cup TemplateIds(ad)

\* C5: addTimeBlock(project, day, slot) on an occupied slot returns null and
\* changes nothing: no block, no timer, no write, no notification; on a free
\* slot it appends exactly one block at (day, slot) with a fresh identity.
C5_AddBlock ==
  last.op = "addTimeBlock" =>
     IF \E b \in Range(PreWeek.blocks) :
           b.day = last.args[2] /\ b.slotIndex = last.args[3]
     THEN /\ last.result = Null
          /\ appData = last.pre.appData
          /\ saveTimeout = last.pre.saveTimeout
          /\ events = <<>>
     ELSE /\ last.result # Null
          /\ last.result.projectId = last.args[1]
          /\ last.result.day = last.args[2]
          /\ last.result.slotIndex = last.args[3]
          /\ last.result.id \notin IdsOf(last.pre.appData)
          /\ CurrentWeek.blocks = Append(PreWeek.blocks, last.result)

\* addTimeBlock was refused: the slot held a block of another project
C5_Witness ==
  /\ last.op = "addTimeBlock"
  /\ last.result = Null
  /\ \E b \in Range(CurrentWeek.blocks) :
        /\ b.day = last.args[2] /\ b.slotIndex = last.args[3]
        /\ b.projectId # last.args[1]


(***************************************************************************)
(* Properties of the balance calculator                                    *)
(***************************************************************************)
Calculated == last.op = "calculateProjectBalances"
PreKey == getWeekKey(last.pre.currentMonday)

\* how many blocks of the week belong to the project
Logged(week, projectId) ==
  Cardinality({k \in DOMAIN week.blocks : week.blocks[k].projectId = projectId})

\* the stored weeks strictly before the key that hold at least one block
PriorWeeks(ad, key) ==
  {i \in DOMAIN ad.weeks :
     StrLess(ad.weeks[i].weekKey, key) /\ Len(ad.weeks[i].blocks) >= 1}

\* sum over the weeks in S of target - 0.5 h per block of the project, in minutes
RECURSIVE Shortfall(_, _, _)
Shortfall(ad, project, S) ==
  IF S = {} THEN 0
  ELSE LET i == CHOOSE j \in S : TRUE
       IN  project.weeklyHourTarget * 60 - 30 * Logged(ad.weeks[i], project.id)
             + Shortfall(ad, project, S \ {i})

\* C6: for every project the carryover returned by calculateProjectBalances is
\* the sum, over the stored weeks whose key is strictly before the current
\* week's key and that hold at least one block of any project, of the project's
\* target minus half an hour per block of the project in that week; a week
\* without blocks adds nothing and a week holding only other projects' blocks
\* adds the full target.
C6_Carryover ==
  Calculated =>
    \A k \in DOMAIN last.result :
       last.result[k].carryoverBalance =
         Shortfall(last.pre.appData, last.result[k].project,
                   PriorWeeks(last.pre.appData, PreKey))

\* a calculation over a history with an empty prior week and a prior week that
\* holds only the other project's blocks, which adds the whole target of 10 h
C6_Witness ==
  /\ Calculated
  /\ \E i, j \in DOMAIN last.pre.appData.weeks, k \in DOMAIN last.result :
       LET wi == last.pre.appData.weeks[i]
           wj == last.pre.appData.weeks[j]
           b == last.result[k]
       IN  /\ StrLess(wi.weekKey, PreKey) /\ Len(wi.blocks) = 0
           /\ StrLess(wj.weekKey, PreKey) /\ Len(wj.blocks) >= 1
           /\ Logged(wj, b.project.id) = 0
           /\ b.project.weeklyHourTarget = 10
           /\ b.carryoverBalance = 600

\* the integer nearest to num / den, a half going up (num >= 0, den > 0)
NearestHalfUp(num, den) ==
  CHOOSE n \in 0..(num \div den + 1) :
     (2 * n - 1) * den <= 2 * num /\ 2 * num < (2 * n + 1) * den

\* C7: for every project calculateProjectBalances returns effectiveAvailable =
\* weeklyHourTarget + carryover, and percentComplete = min(100, round(
\* currentHours / effectiveAvailable * 100)) when effectiveAvailable > 0 and
\* otherwise 100 if currentHours > 0 else 0; target 10 with one prior non-empty
\* week logging 6 hours and a current week logging 5 hours gives carryover 4,
\* effectiveAvailable 14 and percentComplete 36.
C7_Percent ==
  Calculated =>
    \A k \in DOMAIN last.result :
       LET b == last.result[k]
           target == b.project.weeklyHourTarget * 60
           currentHours == 30 * Logged(PreWeek, b.project.id)
           effectiveAvailable == target + b.carryoverBalance
           prior == PriorWeeks(last.pre.appData, PreKey)
       IN  /\ b.effectiveAvailable = effectiveAvailable
           /\ b.percentComplete =
                IF effectiveAvailable > 0
                THEN Min(100, NearestHalfUp(100 * currentHours, effectiveAvailable))
                ELSE IF currentHours > 0 THEN 100 ELSE 0
           /\ ( /\ b.project.weeklyHourTarget = 10
                /\ Cardinality(prior) = 1
                /\ \A i \in prior : Logged(last.pre.appData.weeks[i], b.project.id) = 12
                /\ currentHours = 300 )
              => /\ b.carryoverBalance = 240
                 /\ b.effectiveAvailable = 840
                 /\ b.percentComplete = 36

\* C8: the standing depends only on the current week's hours and the weekly
\* target, never on the carryover: with tolerance = max(0.5, 10% of target) it
\* is "over" when currentHours > target + tolerance, "under" when currentHours
\* < target - tolerance and "on-track" otherwise; a target of 0 is "on-track"
\* for any number of logged hours.  (Tenths of an hour: a block is 5, the
\* target 10 * T, the tolerance max(5, T).)
C8_Standing ==
  Calculated =>
    \A k \in DOMAIN last.result :
       LET b == last.result[k]
           T == b.project.weeklyHourTarget
           c == Logged(PreWeek, b.project.id)
       IN  b.standing =
             IF T = 0 THEN "on-track"
             ELSE IF 5 * c > 10 * T + Max(5, T) THEN "over"
             ELSE IF 5 * c < 10 * T - Max(5, T) THEN "under"
             ELSE "on-track"

\* target 10 with 5 current hours is "under" whatever the carryover, and a
\* target of 0 with hours logged is "on-track"
C8_Witness ==
  /\ Calculated
  /\ \E k \in DOMAIN last.result :
       LET b == last.result[k]
       IN  /\ b.project.weeklyHourTarget = 10
           /\ Logged(PreWeek, b.project.id) = 10
           /\ b.carryoverBalance = 240
           /\ b.standing = "under"

PriorityRank(priority) ==
  CASE priority = "High" -> 0 [] priority = "Medium" -> 1 [] OTHER -> 2

\* C9: calculateProjectBalances returns exactly one entry per existing project,
\* ordered High before Medium before Low, and projects of equal priority keep
\* their relative order in the project collection.
C9_PriorityOrder ==
  Calculated =>
    LET R == last.result
        P == last.pre.appData.projects
        Pos(i) == CHOOSE k \in DOMAIN R : R[k].project = P[i]
    IN  /\ Len(R) = Len(P)
        /\ \A i \in DOMAIN P :
              Cardinality({k \in DOMAIN R : R[k].project = P[i]}) = 1
        /\ \A k, l \in DOMAIN R :
              k < l => PriorityRank(R[k].project.priority)
                         <= PriorityRank(R[l].project.priority)
        /\ \A i, j \in DOMAIN P :
              (i < j /\ P[i].priority = P[j].priority) => Pos(i) < Pos(j)

\* three projects, the first two of equal priority and the third above them:
\* the third comes first and the first two keep their order
C9_Witness ==
  /\ Calculated
  /\ Len(last.pre.appData.projects) = 3
  /\ last.pre.appData.projects[1].priority = "Low"
  /\ last.pre.appData.projects[2].priority = "Low"
  /\ last.pre.appData.projects[3].priority = "High"
  /\ [k \in 1..3 |-> last.result[k].project.id] = <<3, 1, 2>>

\* C10: calculateProjectBalances is a pure read: projects, every week's blocks,
\* the set of week entries, templates, the weekly goal and the current-week
\* pointer are as before the call, no persistence write is scheduled and no
\* notification is emitted; a second call with no mutation in between returns
\* a result equal to the first.
C10_PureRead ==
  Calculated =>
    /\ appData = last.pre.appData
    /\ currentMonday = last.pre.currentMonday
    /\ saveTimeout = last.pre.saveTimeout
    /\ nextId = last.pre.nextId
    /\ events = <<>>
    /\ last.args # <<>> => last.result = last.args[1]

\* a second calculation over weeks the storage holds out of chronological
\* order, with balances that carry hours over
C10_Witness ==
  /\ Calculated
  /\ last.args # <<>>
  /\ \E i, j \in DOMAIN appData.weeks :
        i < j /\ StrLess(appData.weeks[j].weekKey, appData.weeks[i].weekKey)
  /\ \E k \in DOMAIN last.result : last.result[k].carryoverBalance # 0


(***************************************************************************)
(* Properties of the template engine                                       *)
(***************************************************************************)
Triple(b) == [projectId |-> b.projectId, day |-> b.day, slotIndex |-> b.slotIndex]

\* how many elements of seq carry the triple
Copies(seq, triple) == Cardinality({i \in DOMAIN seq : Triple(seq[i]) = triple})

AppliedKnown ==
  last.op = "applyTemplate" /\ last.args[1] \in TemplateIds(last.pre.appData)

AppliedTemplate ==
  CHOOSE t \in Range(last.pre.appData.templates) : t.id = last.args[1]

\* C11: after applyTemplate(t) for a known template the blocks of the current
\* week, identities aside, are exactly the entries of the template whose
\* project still exists: every block held before the call is gone, every entry
\* with an existing project appears once and the entries of deleted projects,
\* and only those, are dropped.
C11_ApplyReplaces ==
  AppliedKnown =>
    LET entries == AppliedTemplate.blocks
        alive(e) == e.projectId \in ProjectIds(last.pre.appData)
    IN  /\ {b.id : b \in Range(CurrentWeek.blocks)} \cap IdsOf(last.pre.appData) = {}
        /\ \A i \in DOMAIN entries :
              Copies(CurrentWeek.blocks, entries[i]) = IF alive(entries[i]) THEN 1 ELSE 0
        /\ \A j \in DOMAIN CurrentWeek.blocks :
              Copies(entries, Triple(CurrentWeek.blocks[j])) = 1
        /\ Len(CurrentWeek.blocks) =
             Cardinality({i \in DOMAIN entries : alive(entries[i])})

\* a template with an entry of a deleted project and an entry of a living one
\* is applied to a week holding a block that the template does not have
C11_Witness ==
  /\ AppliedKnown
  /\ \E i, j \in DOMAIN AppliedTemplate.blocks :
        /\ AppliedTemplate.blocks[i].projectId \notin ProjectIds(last.pre.appData)
        /\ AppliedTemplate.blocks[j].projectId \in ProjectIds(last.pre.appData)
  /\ \E k \in DOMAIN PreWeek.blocks :
        Copies(AppliedTemplate.blocks, Triple(PreWeek.blocks[k])) = 0
  /\ Len(CurrentWeek.blocks) = Len(AppliedTemplate.blocks) - 1

\* C12: template round trip: a week whose blocks all reference existing
\* projects is saved as a template; applying that template to an emptied week,
\* the same one or another one navigated to, yields the (projectId, day,
\* slotIndex) triples of the week it was saved from.
C12_RoundTrip ==
  /\ last.op = "saveCurrentWeekAsTemplate" =>
       /\ savedFrom[last.result.id] = SourceOf(PreWeek)
       /\ last.result \in Range(appData.templates)
  /\ ( /\ AppliedKnown
       /\ PreWeek.blocks = <<>>
       /\ \A t \in savedFrom[last.args[1]].triples :
             t.projectId \in ProjectIds(last.pre.appData) )
     => /\ TriplesOf(CurrentWeek.blocks) = savedFrom[last.args[1]].triples
        /\ Len(CurrentWeek.blocks) = Cardinality(savedFrom[last.args[1]].triples)

\* a template saved in this run from a week of two blocks is applied to
\* another week, navigated to and emptied
C12_Witness ==
  /\ AppliedKnown
  /\ PreWeek.blocks = <<>>
  /\ last.args[1] \notin TemplateIds(Session7.appData)
  /\ Cardinality(savedFrom[last.args[1]].triples) = 2
  /\ savedFrom[last.args[1]].weekKey # CurrentWeek.weekKey
  /\ Len(CurrentWeek.blocks) = 2


(***************************************************************************)
(* Properties of the calls that name an entity that does not exist         *)
(***************************************************************************)
\* the call named a project, a block of the current week or a template that
\* the state it was made in does not hold
NotFound ==
  \/ /\ last.op \in {"updateProject", "deleteProject"}
     /\ last.args[1] \notin ProjectIds(last.pre.appData)
  \/ /\ last.op \in {"removeTimeBlock", "updateTimeBlockProject"}
     /\ last.args[1] \notin {b.id : b \in Range(PreWeek.blocks)}
  \/ /\ last.op \in {"applyTemplate", "deleteTemplate"}
     /\ last.args[1] \notin TemplateIds(last.pre.appData)

\* C13: a call naming an id that matches no entity (updateProject,
\* deleteProject, removeTimeBlock, updateTimeBlockProject, applyTemplate,
\* deleteTemplate) returns normally and leaves the whole of AppData as it was:
\* projects, the blocks of every week, templates and the weekly goal.
C13_NotFoundKeepsData ==
  NotFound => /\ appData = last.pre.appData
              /\ last.result = Null

\* removeTimeBlock with an identity that no block carries, in a session that
\* holds projects, blocks in the current week and a template
C13_Witness ==
  /\ NotFound
  /\ last.op = "removeTimeBlock"
  /\ last.args[1] = UnknownId
  /\ CurrentWeek.blocks # <<>>
  /\ appData.projects # <<>>
  /\ appData.templates # <<>>

\* C14: a not-found call is a complete no-op: updateProject with an unknown
\* id, removeTimeBlock with an id absent from the current week and
\* deleteTemplate with an unknown id schedule or dispatch no persistence write
\* and emit no change notification.
C14_NotFoundSilent ==
  (NotFound /\ last.op \in {"updateProject", "removeTimeBlock", "deleteTemplate"})
    => /\ events = <<>>
       /\ timers = last.pre.timers
       /\ saveTimeout = last.pre.saveTimeout


(***************************************************************************)
(* Properties of what a block-store call leaves behind                     *)
(***************************************************************************)
InRange(b, day, a, c) ==
  b.day = day /\ b.slotIndex >= Min(a, c) /\ b.slotIndex <= Max(a, c)

\* the call was a block-store call that changes the current week
BlockChange ==
  \/ last.op = "addTimeBlock" /\ last.result # Null
  \/ last.op = "addTimeBlocks"
  \/ /\ last.op = "removeTimeBlocksInRange"
     /\ \E b \in Range(PreWeek.blocks) : InRange(b, last.args[1], last.args[2], last.args[3])
  \/ /\ last.op \in {"removeTimeBlock", "updateTimeBlockProject"}
     /\ last.args[1] \in {b.id : b \in Range(PreWeek.blocks)}
  \/ AppliedKnown

EventsOf(kind) == {k \in DOMAIN events : events[k].kind = kind}

\* C15: every block-store call that changes the current week leaves the
\* updated week stored under its key in the week collection, schedules a
\* persistence write of the week and emits exactly one change notification
\* before it returns, however many slots it touched.
C15_ChangeCommitted ==
  BlockChange =>
    LET key == getWeekKey(currentMonday)
    IN  /\ currentMonday = last.pre.currentMonday
        /\ Cardinality({i \in DOMAIN appData.weeks : appData.weeks[i].weekKey = key}) = 1
        /\ \A k \in WeekKeys(last.pre.appData) \ {key} :
              WeekBlocks(appData, k) = WeekBlocks(last.pre.appData, k)
        /\ last.op = "addTimeBlock" => last.result \in Range(CurrentWeek.blocks)
        /\ last.op = "addTimeBlocks" => Range(last.result) \subseteq Range(CurrentWeek.blocks)
        /\ last.op = "removeTimeBlock" =>
              \A b \in Range(CurrentWeek.blocks) : b.id # last.args[1]
        /\ last.op = "removeTimeBlocksInRange" =>
              \A b \in Range(CurrentWeek.blocks) :
                 ~InRange(b, last.args[1], last.args[2], last.args[3])
        /\ last.op = "updateTimeBlockProject" =>
              \A b \in Range(CurrentWeek.blocks) :
                 b.id = last.args[1] => b.projectId = last.args[2]
        /\ Cardinality(EventsOf("setTimeout")) = 1
        /\ \A k \in EventsOf("setTimeout") : events[k].arg = SAVE_DEBOUNCE_MS
        /\ saveTimeout = "armed"
        /\ timers = <<SAVE_DEBOUNCE_MS>>
        /\ Cardinality(EventsOf("notify")) = 1
        /\ \A k \in EventsOf("notify") :
              /\ events[k].appData = appData
              /\ \A j \in EventsOf("setTimeout") : j < k

\* a range of three slots, one of them occupied, in a week that is not the
\* first of the collection: one write scheduled, one notification
C15_Witness ==
  /\ last.op = "addTimeBlocks"
  /\ Len(last.result) = 3
  /\ PreWeek.blocks # <<>>
  /\ appData.weeks[1].weekKey # getWeekKey(currentMonday)
  /\ Cardinality(EventsOf("notify")) = 1
  /\ timers = <<SAVE_DEBOUNCE_MS>>


(***************************************************************************)
(* Properties of the change notification                                   *)
(***************************************************************************)
\* the callbacks invoked during the last call, in the order of invocation
Invoked == SelectSeq(events, LAMBDA e : e.kind = "listener")
InvokedListeners == [i \in DOMAIN Invoked |-> Invoked[i].arg]

EngineCall == last.op \notin {"idle", "initState", "subscribe", "unsubscribe"}

\* C16: a change notification is delivered synchronously inside the mutating
\* call to every subscriber registered at that moment, each exactly once and
\* in the order in which they subscribed, and each subscriber sees the state
\* already updated by the mutation.
C16_NotifyFanOut ==
  /\ last.op = "subscribe" => listeners = Append(last.pre.listeners, last.args[1])
  /\ EngineCall =>
       IF EventsOf("notify") = {}
       THEN Invoked = <<>>
       ELSE /\ InvokedListeners = last.pre.listeners
            /\ \A i \in DOMAIN Invoked : Invoked[i].appData = appData
            /\ \A k \in EventsOf("notify"), j \in EventsOf("listener") :
                  k < j /\ j <= k + Len(last.pre.listeners)

\* a block is added while three callbacks are subscribed, in an order that is
\* not the order of their numbers
C16_Witness ==
  /\ last.op = "addTimeBlock"
  /\ last.result # Null
  /\ Len(last.pre.listeners) = 3
  /\ last.pre.listeners[1] > last.pre.listeners[2]
  /\ Len(Invoked) = 3

\* the subscriptions cancelled from inside the callbacks of the last pass
CancelledInPass ==
  UNION {Unsubscribed(l) : l \in Range(last.pre.listeners)}

\* C17: when a subscriber unsubscribes itself or another subscriber from
\* inside its callback during a notification pass, every subscriber registered
\* when the pass started is still invoked exactly once in that pass, and the
\* unsubscribed one is registered no more, so that no later pass invokes it.
C17_UnsubscribeInPass ==
  (EngineCall /\ EventsOf("notify") # {}) =>
    /\ \A l \in Range(last.pre.listeners) :
          Cardinality({i \in DOMAIN Invoked : Invoked[i].arg = l}) = 1
    /\ \A i \in DOMAIN Invoked : Invoked[i].arg \in Range(last.pre.listeners)
    /\ listeners = SelectSeq(last.pre.listeners, LAMBDA l : l \notin CancelledInPass)

\* callback 3 unsubscribes callback 1, which comes after it, and callback 2
\* unsubscribes itself with callback 1 behind it: all three are invoked and only
\* callback 3 stays subscribed
C17_Witness ==
  /\ EngineCall
  /\ last.pre.listeners = <<3, 2, 1>>
  /\ InvokedListeners = <<3, 2, 1>>
  /\ listeners = <<3>>


(***************************************************************************)
(* Properties of the debounced persistence                                 *)
(***************************************************************************)
\* the call went through debouncedSaveWeek
Debounced == EngineCall /\ EventsOf("setTimeout") # {}

TimerRan == last.op = "saveTimeout"

\* C18: debounce coalescing: block mutations of the same current week, each
\* within the quiescence window of the one before and with no navigation in
\* between, lead to exactly one saveWeek dispatch, issued only once the window
\* has elapsed since the last mutation and carrying the blocks that the last
\* mutation left; each later mutation cancels and restarts the pending timer.
C18_Coalescing ==
  /\ Len(timers) <= 1
  /\ writes <= 1
  /\ Debounced =>
       /\ EventsOf("saveWeek") = {}
       /\ last.pre.timers # <<>> =>
             \E c \in EventsOf("clearTimeout") : \A k \in EventsOf("setTimeout") : c < k
       /\ timers = <<SAVE_DEBOUNCE_MS>>
       /\ writes = 0
  /\ TimerRan =>
       /\ last.pre.sinceMutation >= SAVE_DEBOUNCE_MS
       /\ Cardinality(EventsOf("saveWeek")) = 1
       /\ timers = <<>>
       /\ writes = 1
       /\ last.pre.unsaved \subseteq {getWeekKey(currentMonday)} =>
             /\ \A k \in EventsOf("saveWeek") :
                   /\ events[k].arg.weekKey = getWeekKey(currentMonday)
                   /\ events[k].arg.blocks = WeekBlocks(appData, getWeekKey(currentMonday))
             /\ unsaved = {}

\* the timer runs after a burst of two mutations of the current week, a
\* removal of a stored block and an addition, and writes the week once
C18_Witness ==
  /\ TimerRan
  /\ last.pre.unsaved = {getWeekKey(currentMonday)}
  /\ \E b \in Range(CurrentWeek.blocks) : b.id \notin BlockIds(Session7.appData)
  /\ \E b \in Range(WeekBlocks(Session7.appData, getWeekKey(currentMonday))) :
        b \notin Range(CurrentWeek.blocks)
  /\ writes = 1
  /\ unsaved = {}

\* the keys of the weeks that navigation reaches
AllKeys == {getWeekKey(m) : m \in Mondays}

\* C19: after a block mutation of a week, once mutations stop, a saveWeek
\* carrying that week's key and latest blocks is eventually dispatched, also
\* when the user navigates to another week before the window elapses: no
\* mutated week stays unwritten for ever.
C19_EventuallyWritten ==
  \A key \in AllKeys : (key \in unsaved) ~> (key \notin unsaved)

\* C20: each write target has its own debounce timer: a block mutation of a
\* week arriving while a write is pending for another week neither cancels nor
\* replaces that pending write.
C20_IndependentTimers ==
  ( /\ Debounced
    /\ last.pre.timers # <<>>
    /\ \E key \in last.pre.unsaved : key # getWeekKey(currentMonday) )
  => /\ EventsOf("clearTimeout") = {}
     /\ Len(timers) = Len(last.pre.timers) + 1


(***************************************************************************)
(* Properties of the persistence boundary                                  *)
(***************************************************************************)
WriteFailed == last.op = "writeRejected"

\* the writes the last call dispatched
WriteEvents == {k \in DOMAIN events : events[k].kind \in WriteKinds}

\* the last call was a mutation of the store
Mutation ==
  last.op \in {"setWeeklyHourGoal", "addProject", "updateProject", "deleteProject",
               "addTimeBlock", "addTimeBlocks", "removeTimeBlocksInRange",
               "removeTimeBlock", "updateTimeBlockProject",
               "saveCurrentWeekAsTemplate", "applyTemplate", "deleteTemplate"}

\* C21: a failing persistence write (projects, a week, templates, the whole
\* AppData) is contained at the boundary: the reaction to the failure logs it
\* and leaves the in-memory state, the timer and the subscribers as they were
\* (no rollback), dispatches no write (no retry) and throws nothing; the
\* mutation that dispatched a write has returned its result and notified the
\* subscribers, with the state it left, before any write can settle.
C21_FailureContained ==
  /\ WriteFailed =>
       /\ appData = last.pre.appData
       /\ currentMonday = last.pre.currentMonday
       /\ saveTimeout = last.pre.saveTimeout
       /\ timers = last.pre.timers
       /\ listeners = last.pre.listeners
       /\ last.result = Null
       /\ WriteEvents = {}
       /\ Len(inflight) = Len(last.pre.inflight) - 1
       /\ Cardinality(EventsOf("console.error")) = 1
       /\ \A k \in EventsOf("console.error") : events[k].arg = last.args[1]
  /\ (Mutation /\ WriteEvents # {}) =>
       /\ Len(inflight) = Len(last.pre.inflight) + Cardinality(WriteEvents)
       /\ EventsOf("console.error") = {}
       /\ Cardinality(EventsOf("notify")) = 1
       /\ \A k \in EventsOf("notify") :
             /\ events[k].appData = appData
             /\ \A w \in WriteEvents : w < k /\ events[w].appData = appData

\* the write of a week that the debounce timer dispatched, after a block was
\* removed from it, fails while the two projects and the other block stay
C21_Witness ==
  /\ WriteFailed
  /\ last.args[1].kind = "saveWeek"
  /\ last.args[1].arg = CurrentWeek
  /\ Len(CurrentWeek.blocks) = 1
  /\ Len(appData.projects) = 2
  /\ currentMonday = FirstMonday


(***************************************************************************)
(* Properties of the colours of the projects                               *)
(***************************************************************************)
Palette == 0..(PaletteSize - 1)
UsedColors(ad) == {p.colorIndex : p \in Range(ad.projects)}
Exhausted(ad) == Palette \subseteq UsedColors(ad)
DistinctColors(ad) ==
  \A i, j \in DOMAIN ad.projects :
     ad.projects[i].colorIndex = ad.projects[j].colorIndex => i = j

\* C22: addProject gives the new project the lowest palette index that no
\* existing project uses; when every palette index is in use it gives (number
\* of existing projects) mod (palette size); the project is appended at the
\* end of the collection with a fresh identity and is the value returned.
C22_AddProjectColor ==
  last.op = "addProject" =>
    LET pre == last.pre.appData
        free == Palette \ UsedColors(pre)
    IN  /\ last.result.colorIndex =
             IF free # {} THEN CHOOSE c \in free : \A d \in free : c <= d
             ELSE Len(pre.projects) % PaletteSize
        /\ appData.projects = Append(pre.projects, last.result)
        /\ last.result.id \notin IdsOf(pre)
        /\ last.result.weeklyHourTarget = last.args[1]
        /\ last.result.priority = last.args[2]

\* a fourteenth project is added while every palette index is in use: it
\* gets index 13 mod 12 = 1
C22_Witness ==
  /\ last.op = "addProject"
  /\ Exhausted(last.pre.appData)
  /\ Len(last.pre.appData.projects) = PaletteSize + 1
  /\ last.result.colorIndex = 1

BlockStoreCall ==
  last.op \in {"addTimeBlock", "addTimeBlocks", "removeTimeBlocksInRange",
               "removeTimeBlock", "updateTimeBlockProject", "applyTemplate"}

\* the identities of the blocks of the week that was selected at the call
PreWeekIds == {b.id : b \in Range(PreWeek.blocks)}

\* C24: the block-store calls (addTimeBlock, addTimeBlocks,
\* removeTimeBlocksInRange, removeTimeBlock, updateTimeBlockProject) and
\* applyTemplate act only on the selected week: the selection, every other
\* week's entry, the projects, the templates and the weekly goal are as before
\* the call, and removeTimeBlock or updateTimeBlockProject given the identity
\* of a block of another week leaves the whole of the data as it was.
C24_CurrentWeekOnly ==
  BlockStoreCall =>
    LET pre == last.pre.appData
        key == getWeekKey(last.pre.currentMonday)
    IN  /\ currentMonday = last.pre.currentMonday
        /\ appData.projects = pre.projects
        /\ appData.templates = pre.templates
        /\ appData.weeklyHourGoal = pre.weeklyHourGoal
        /\ Len(appData.weeks) = Len(pre.weeks)
        /\ \A i \in DOMAIN pre.weeks :
              pre.weeks[i].weekKey # key => appData.weeks[i] = pre.weeks[i]
        /\ ( /\ last.op \in {"removeTimeBlock", "updateTimeBlockProject"}
             /\ last.args[1] \in BlockIds(pre) \ PreWeekIds )
           => appData = pre

\* removeTimeBlock is given the identity of a block of the other week while
\* the selected week, the second of the collection, holds a block of its own
C24_Witness ==
  /\ last.op = "removeTimeBlock"
  /\ last.args[1] \in BlockIds(last.pre.appData) \ PreWeekIds
  /\ PreWeek.blocks # <<>>
  /\ appData.weeks[2].weekKey = getWeekKey(currentMonday)
  /\ appData = last.pre.appData


RangeRemoved == last.op = "removeTimeBlocksInRange"

\* the blocks that the week selected at the call held within the range
PreInRange ==
  {b \in Range(PreWeek.blocks) : InRange(b, last.args[1], last.args[2], last.args[3])}

\* C25: removeTimeBlocksInRange(day, a, b) removes every block of the selected
\* week on that day whose slot lies in [min(a,b), max(a,b)], whatever its
\* project, and nothing else: the blocks on other days and those of the day
\* outside the range stay, each with its identity, project and slot, in the
\* order they had.
C25_RangeRemoval ==
  RangeRemoved =>
    /\ \A b \in Range(CurrentWeek.blocks) :
          ~InRange(b, last.args[1], last.args[2], last.args[3])
    /\ Range(CurrentWeek.blocks) = Range(PreWeek.blocks) \ PreInRange
    /\ Len(CurrentWeek.blocks) = Len(PreWeek.blocks) - Cardinality(PreInRange)
    /\ \A i, j \in DOMAIN CurrentWeek.blocks :
          i < j => \E k, l \in DOMAIN PreWeek.blocks :
                      /\ k < l
                      /\ PreWeek.blocks[k] = CurrentWeek.blocks[i]
                      /\ PreWeek.blocks[l] = CurrentWeek.blocks[j]

\* a range of two slots holding blocks of two projects is removed from a day
\* that holds a third block outside it, in a week with a block on another day
C25_Witness ==
  /\ RangeRemoved
  /\ \E b, c \in PreInRange : b.projectId # c.projectId
  /\ \E b \in Range(CurrentWeek.blocks) : b.day = last.args[1]
  /\ \E b \in Range(CurrentWeek.blocks) : b.day # last.args[1]
  /\ Len(CurrentWeek.blocks) = 2


\* the blocks of the selected week that the last call created
NewBlocks == {b \in Range(CurrentWeek.blocks) : b.id \notin PreWeekIds}

\* C26: removeTimeBlock(id) for an identity present in the selected week
\* removes exactly that one block and keeps every other block, in order; it
\* can rely on identities being unique: no two blocks of any weeks carry the
\* same identity, because every block created by addTimeBlock, addTimeBlocks
\* or applyTemplate gets an identity that no entity carried before and that
\* no other block created by the call carries.
C26_RemoveOne ==
  /\ \A w, v \in DOMAIN appData.weeks :
        \A i \in DOMAIN appData.weeks[w].blocks, j \in DOMAIN appData.weeks[v].blocks :
           appData.weeks[w].blocks[i].id = appData.weeks[v].blocks[j].id
             => (w = v /\ i = j)
  /\ last.op \in {"addTimeBlock", "addTimeBlocks", "applyTemplate"} =>
        /\ \A b \in NewBlocks : b.id \notin IdsOf(last.pre.appData)
        /\ Cardinality({b.id : b \in NewBlocks}) = Cardinality(NewBlocks)
  /\ (last.op = "removeTimeBlock" /\ last.args[1] \in PreWeekIds) =>
        /\ Len(CurrentWeek.blocks) = Len(PreWeek.blocks) - 1
        /\ CurrentWeek.blocks = SelectSeq(PreWeek.blocks, LAMBDA b : b.id # last.args[1])
        /\ \A b \in Range(PreWeek.blocks) :
              b.id # last.args[1] => b \in Range(CurrentWeek.blocks)

\* a block that a range addition or a template created in this run is removed
\* from a week of three blocks or more
C26_Witness ==
  /\ last.op = "removeTimeBlock"
  /\ last.args[1] \in PreWeekIds
  /\ last.args[1] \notin BlockIds(Session7.appData)
  /\ Len(PreWeek.blocks) >= 3
  /\ Len(CurrentWeek.blocks) = Len(PreWeek.blocks) - 1


\* C27: updateTimeBlockProject(id, newProject) for a block of the selected
\* week changes that block's projectId and nothing else: the block keeps its
\* identity, day, slotIndex and place, the week holds as many blocks as before
\* and every other block is as it was; likewise updateProject leaves every
\* project's id and place in the collection as they were, and changes no
\* project but the one named.
C27_InPlace ==
  /\ (last.op = "updateTimeBlockProject" /\ last.args[1] \in PreWeekIds) =>
        /\ Len(CurrentWeek.blocks) = Len(PreWeek.blocks)
        /\ \A i \in DOMAIN PreWeek.blocks :
              LET b == PreWeek.blocks[i]
              IN  CurrentWeek.blocks[i] =
                    IF b.id = last.args[1]
                    THEN [id |-> b.id, projectId |-> last.args[2],
                          day |-> b.day, slotIndex |-> b.slotIndex]
                    ELSE b
  /\ last.op = "updateProject" =>
        /\ Len(appData.projects) = Len(last.pre.appData.projects)
        /\ \A i \in DOMAIN last.pre.appData.projects :
              LET p == last.pre.appData.projects[i]
              IN  /\ appData.projects[i].id = p.id
                  /\ p.id # last.args[1] => appData.projects[i] = p

\* the first of the two blocks of a week is given the other project
C27_Witness ==
  /\ last.op = "updateTimeBlockProject"
  /\ Len(PreWeek.blocks) = 2
  /\ PreWeek.blocks[1].id = last.args[1]
  /\ PreWeek.blocks[1].projectId # last.args[2]
  /\ CurrentWeek.blocks[1].projectId = last.args[2]
  /\ CurrentWeek.blocks[2] = PreWeek.blocks[2]


(***************************************************************************)
(* Properties of the week collection                                       *)
(***************************************************************************)
Navigated == last.op \in {"navigateWeek", "goToToday"}

\* C28: once the state is initialised no operation (navigateWeek, goToToday,
\* block, project and template operations) removes a week entry or changes an
\* entry's weekKey: every entry is still there after the call, at its place
\* and under its key, so that the set of stored keys only grows; navigating to
\* a week that has no entry appends one with an empty block collection, and
\* navigating to a week that has one changes no data.
C28_WeeksOnlyGrow ==
  last.op \notin {"idle", "initState"} =>
    LET pre == last.pre.appData
        key == getWeekKey(currentMonday)
    IN  /\ Len(appData.weeks) >= Len(pre.weeks)
        /\ \A i \in DOMAIN pre.weeks : appData.weeks[i].weekKey = pre.weeks[i].weekKey
        /\ WeekKeys(pre) \subseteq WeekKeys(appData)
        /\ Navigated =>
              IF key \in WeekKeys(pre) THEN appData = pre
              ELSE appData.weeks = Append(pre.weeks, [weekKey |-> key, blocks |-> <<>>])

\* the user navigates to a week that has no entry: the collection gets its
\* second entry, which holds no block
C28_Witness ==
  /\ last.op = "navigateWeek"
  /\ getWeekKey(currentMonday) \notin WeekKeys(last.pre.appData)
  /\ Len(last.pre.appData.weeks) = 1
  /\ Len(appData.weeks) = 2
  /\ appData.weeks[2] = [weekKey |-> getWeekKey(currentMonday), blocks |-> <<>>]


(***************************************************************************)
(* Properties of the week keys                                             *)
(***************************************************************************)
\* the entries stored before the entry of the selected week, which is the last
EarlierEntries == 1..(Len(appData.weeks) - 1)
YearOf(key) == SubSeq(key, 1, 4)

\* C29: getWeekKey is monotonically non-decreasing under lexicographic string
\* ordering for chronologically increasing Mondays of the same year, for every
\* weekday on which 1 January falls and for leap and non-leap years: the key
\* of a Monday is not below the key of any earlier Monday of its year; it is
\* the same whatever the shift of local time, and the week is stored under it.
C29_KeysMonotone ==
  /\ \A shift \in ClockShifts :
        getWeekKeyAt(currentMonday, shift) = appData.weeks[Len(appData.weeks)].weekKey
  /\ LET key == getWeekKey(currentMonday)
     IN  \A i \in EarlierEntries :
           YearOf(appData.weeks[i].weekKey) = YearOf(key)
             => ~StrLess(key, appData.weeks[i].weekKey)

\* the user has navigated through 2040, a leap year that began on a Sunday, to
\* its last Monday, 31 December: the key is 2040-W53, above the key before
C29_Witness ==
  /\ last.op = "navigateWeek"
  /\ getFullYear(currentMonday) = 2040
  /\ IsLeap(getFullYear(currentMonday))
  /\ getDay(Jan1Of(getFullYear(currentMonday))) = 0
  /\ Len(appData.weeks) = 53
  /\ getWeekKey(currentMonday) = <<50, 48, 52, 48, 45, 87, 53, 51>>
  /\ StrLess(getWeekKey(last.pre.currentMonday), getWeekKey(currentMonday))

\* C30: week keys sort chronologically across year boundaries and identify the
\* weeks: for two Mondays of the same or of consecutive years the key of the
\* earlier is strictly below the key of the later as strings, so that no two
\* weeks share a key; the week number takes two digits; and sorting by key
\* puts a week after the week before it.
C30_KeysChronological ==
  /\ Len(getWeekKey(currentMonday)) = 8
  /\ LET key == getWeekKey(currentMonday)
     IN  \A i \in EarlierEntries : StrLess(appData.weeks[i].weekKey, key)
  /\ last.op = "navigateWeek" =>
        LET n == Len(appData.weeks)
        IN  SortWeeks(<<appData.weeks[n], appData.weeks[n - 1]>>)
              = <<appData.weeks[n - 1], appData.weeks[n]>>

\* the user navigates over a year boundary, from the week 53 of a year to the
\* week 02 of the next, a year after the run began
C30_Witness ==
  /\ last.op = "navigateWeek"
  /\ getFullYear(currentMonday) = getFullYear(last.pre.currentMonday) + 1
  /\ SubSeq(getWeekKey(last.pre.currentMonday), 7, 8) = <<53, 51>>
  /\ SubSeq(getWeekKey(currentMonday), 7, 8) = <<48, 50>>
  /\ YearOf(appData.weeks[1].weekKey) # YearOf(getWeekKey(last.pre.currentMonday))


(***************************************************************************)
(* Properties of the writes of the project list and the template list      *)
(***************************************************************************)
\* the call changed the project list or the template list
ListMutation ==
  \/ last.op \in {"addProject", "saveCurrentWeekAsTemplate"}
  \/ last.op = "updateProject" /\ last.args[1] \in ProjectIds(last.pre.appData)
  \/ last.op = "deleteTemplate" /\ last.args[1] \in TemplateIds(last.pre.appData)

ListWrites == EventsOf("saveProjects") \cup EventsOf("saveTemplates")

\* C31: writes of the project list and of the template list are debounced
\* like week writes: a mutation of either list dispatches no write itself but
\* arms a timer for the quiescence window, cancelling the pending one, so that
\* mutations within the window of each other are coalesced; the single
\* saveProjects or saveTemplates write is issued by the timer once the window
\* has elapsed since the last mutation.
C31_ListWritesDebounced ==
  /\ ListMutation =>
       /\ ListWrites = {}
       /\ EventsOf("setTimeout") # {}
       /\ timers = <<SAVE_DEBOUNCE_MS>>
  /\ ListWrites # {} =>
       /\ TimerRan
       /\ last.pre.sinceMutation >= SAVE_DEBOUNCE_MS
       /\ Cardinality(ListWrites) = 1


(***************************************************************************)
(* Properties of the range operations' bounds                              *)
(***************************************************************************)
\* C32: addTimeBlocks is independent of the order of its bounds: called on the
\* same state with the bounds exchanged it leaves the same (projectId, day,
\* slotIndex) set in the week and returns the same number of blocks, one for
\* each slot between the bounds, the single-slot case included.
C32_BoundsOrder ==
  last.op = "addTimeBlocks" =>
    LET exchanged == addTimeBlocks(last.pre, last.args[1], last.args[2],
                                   last.args[4], last.args[3])
        lower == IF last.args[3] <= last.args[4] THEN last.args[3] ELSE last.args[4]
        upper == IF last.args[3] <= last.args[4] THEN last.args[4] ELSE last.args[3]
    IN  /\ TriplesOf(WeekBlocks(exchanged.appData, getWeekKey(currentMonday)))
             = TriplesOf(CurrentWeek.blocks)
        /\ Len(exchanged.result) = Len(last.result)
        /\ Len(last.result) = upper - lower + 1
        /\ {b.slotIndex : b \in Range(last.result)} = lower..upper

\* a range given with its upper bound first, over a day that holds a block
C32_Witness ==
  /\ last.op = "addTimeBlocks"
  /\ last.args[3] > last.args[4] + 1
  /\ \E b \in Range(PreWeek.blocks) :
        InRange(b, last.args[2], last.args[4], last.args[3])
  /\ Len(last.result) = 3


(***************************************************************************)
(* Properties of the Monday of a date                                      *)
(***************************************************************************)
\* C33: getMonday maps every date to the Monday of its week, Sunday counted as
\* the last day of the week that began the Monday before: the result is a
\* Monday, at most 6 days before the date and never after it, and the Monday
\* of a Monday is that day; navigation by +1 or -1 lands on a Monday, so the
\* selected week always begins on a Monday.
C33_MondayOf ==
  /\ getDay(currentMonday) = 1
  /\ getMonday(currentMonday) = currentMonday
  /\ last.op \in {"initState", "goToToday"} =>
       LET today == last.args[1]
       IN  /\ currentMonday = getMonday(today)
           /\ currentMonday <= today
           /\ today - currentMonday <= 6
           /\ getDay(today) = 1 => currentMonday = today
           /\ getDay(today) = 0 => currentMonday = today - 6
  /\ last.op = "navigateWeek" =>
       /\ currentMonday = last.pre.currentMonday + 7 * last.args[1]
       /\ getWeekKey(currentMonday) # getWeekKey(last.pre.currentMonday)

\* goToToday() on Sunday 4 January 2026 selects the week of Monday 29
\* December 2025, from the week before it
C33_Witness ==
  /\ last.op = "goToToday"
  /\ getDay(last.args[1]) = 0
  /\ getFullYear(currentMonday) < getFullYear(last.args[1])
  /\ currentMonday = last.pre.currentMonday + 7


(***************************************************************************)
(* Referential integrity                                                   *)
(***************************************************************************)
\* the blocks of ad whose project ad does not hold
Dangling(ad) == {b \in AllBlocks(ad) : b.projectId \notin ProjectIds(ad)}

\* C34: referential integrity is an invariant: the calls that add or reassign
\* blocks naming projects that exist, every block of every week references a
\* project that exists, in every reachable state and in every state that a
\* write or a subscriber is handed during a call, across project deletions,
\* template applications and navigation.
C34_ReferentialIntegrity ==
  /\ Dangling(appData) = {}
  /\ \A k \in DOMAIN events : Dangling(events[k].appData) = {}

\* a template is applied one of whose projects has been deleted: the week
\* takes the entries of the project that is left
C34_Witness ==
  /\ AppliedKnown
  /\ \E e \in Range(AppliedTemplate.blocks) : e.projectId \notin ProjectIds(appData)
  /\ CurrentWeek.blocks # <<>>
  /\ Len(appData.weeks) > 1


(***************************************************************************)
(* The range of percentComplete                                            *)
(***************************************************************************)
\* C35: with weekly targets that are not negative, every percentComplete that
\* calculateProjectBalances returns is an integer from 0 to 100, also when the
\* carryover is so far below zero that effectiveAvailable is zero or negative.
C35_PercentRange ==
  Calculated =>
    \A k \in DOMAIN last.result :
       /\ last.result[k].project.weeklyHourTarget >= 0
       /\ last.result[k].percentComplete \in 0..100
       /\ last.result[k].effectiveAvailable <= 0 =>
             last.result[k].percentComplete \in {0, 100}

\* a project ahead of its target by more than a week's worth, with hours
\* logged in the current week: 100 percent
C35_Witness ==
  /\ Calculated
  /\ \E k \in DOMAIN last.result :
        /\ last.result[k].project.weeklyHourTarget > 0
        /\ last.result[k].carryoverBalance < 0
        /\ last.result[k].effectiveAvailable < 0
        /\ last.result[k].currentWeekLogged > 0
        /\ last.result[k].percentComplete = 100


(***************************************************************************)
(* The entry of the selected week                                          *)
(***************************************************************************)
\* the places of the week collection that hold the key
EntriesOf(ad, key) == {i \in DOMAIN ad.weeks : ad.weeks[i].weekKey = key}

\* C36: after initialisation the week collection holds, in every reachable
\* state, exactly one entry under the key of the selected week, and no two
\* entries share a key (the loaded entries having distinct keys); a block
\* operation therefore finds the stored week, not a detached copy, and puts
\* the changed week back at its place without adding an entry.
C36_OneEntryPerWeek ==
  /\ Cardinality(EntriesOf(appData, getWeekKey(currentMonday))) = 1
  /\ Cardinality(WeekKeys(appData)) = Len(appData.weeks)
  /\ getCurrentWeekData(appData, currentMonday) \in Range(appData.weeks)
  /\ BlockStoreCall =>
       /\ Cardinality(EntriesOf(last.pre.appData, PreKey)) = 1
       /\ Len(appData.weeks) = Len(last.pre.appData.weeks)
       /\ \A i \in EntriesOf(appData, getWeekKey(currentMonday)) :
             /\ i \in EntriesOf(last.pre.appData, PreKey)
             /\ appData.weeks[i] = CurrentWeek

\* a block is added to the selected week, the second of the collection: its
\* entry takes the block where it stands
C36_Witness ==
  /\ last.op = "addTimeBlock"
  /\ last.result # Null
  /\ Len(appData.weeks) = 2
  /\ EntriesOf(appData, getWeekKey(currentMonday)) = {2}
  /\ last.result \in Range(appData.weeks[2].blocks)
  /\ last.result \notin Range(last.pre.appData.weeks[2].blocks)


(***************************************************************************)
(* Templates are snapshots                                                 *)
(***************************************************************************)
\* C37: a stored template is a snapshot that nothing changes afterwards: it
\* keeps the triples of the week it was taken from as they were then; block
\* operations on that week, applyTemplate and deleteProject of a project it
\* references leave the template collection as it is;
\* saveCurrentWeekAsTemplate appends to it; only deleteTemplate removes a
\* template, and only the one with the given id.
C37_TemplateSnapshot ==
  /\ \A t \in Range(appData.templates) :
        t.id \in DOMAIN savedFrom =>
           {[projectId |-> e.projectId, day |-> e.day, slotIndex |-> e.slotIndex] :
               e \in Range(t.blocks)} = savedFrom[t.id].triples
  /\ last.op \notin {"idle", "initState"} =>
       LET pre == last.pre.appData.templates
       IN  /\ last.op = "deleteTemplate" =>
                appData.templates = SelectSeq(pre, LAMBDA t : t.id # last.args[1])
           /\ last.op = "saveCurrentWeekAsTemplate" =>
                /\ Len(appData.templates) = Len(pre) + 1
                /\ SubSeq(appData.templates, 1, Len(pre)) = pre
           /\ last.op \notin {"deleteTemplate", "saveCurrentWeekAsTemplate"} =>
                appData.templates = pre

\* a project is deleted that both stored templates reference, the second of
\* them taken in this run: they keep its entries
C37_Witness ==
  /\ last.op = "deleteProject"
  /\ last.args[1] \in ProjectIds(last.pre.appData)
  /\ Len(appData.templates) = 2
  /\ \A t \in Range(appData.templates) :
        \E e \in Range(t.blocks) : e.projectId = last.args[1]
  /\ References(appData, last.args[1]) = {}

====
